---- MODULE Spec2Model ----
(***************************************************************************)
(* Bank/Beacon reconciliation engine (reconciliation_system.py).           *)
(*                                                                         *)
(* Amounts are in pence (Decimal('13.00') is 1300), dates are day numbers, *)
(* the three sub-scores are in units of 1e-5 (1.0 is 100000) and a         *)
(* confidence is in units of 1e-8 (1.0 is 100000000), so that every        *)
(* product and every average the code computes is an exact integer.        *)
(* A proposal (MatchSuggestion) is an object of a heap: the collections    *)
(* hold object identities, and Python's == on proposals is equality of the *)
(* heap records.  A session is one record s of the fields of               *)
(* ReconciliationSystem; a method is an operator from sessions to          *)
(* sessions.  A value that a method computes once and reads several times  *)
(* is passed to a helper operator as an argument.                          *)
(***************************************************************************)
EXTENDS Integers, Sequences, FiniteSets, TLC

\* ------------------------------------------------------------------ bounds
MaxObjs == 8          \* heap slots for MatchSuggestion objects
MaxMatchId == 9       \* largest n of an identifier MATCH_n that is generated
MaxSteps == 3         \* calls made in one run

\* ------------------------------------------------------- program constants
ConfOne == 100000000  \* the confidence 1.0
COMMON_AMOUNTS == {1300, 950, 650}
AUTO_CONFIRM_COMMON_THRESHOLD == 90000000
AUTO_CONFIRM_OTHER_THRESHOLD == 80000000
DEFAULT_DATE_TOLERANCE_DAYS == 7
MIN_CONFIDENCE_THRESHOLD == 10000000
MEMBER_MATCH_CONFIDENCE == 95000000
DEFAULT_TRANS_NO_LIMIT == 5

PENDING == "pending"
CONFIRMED == "confirmed"
REJECTED == "rejected"
SKIPPED == "skipped"
MANUAL_MATCH == "manual_match"
MANUALLY_RESOLVED == "manually_resolved"
MatchStatus == {PENDING, CONFIRMED, REJECTED, SKIPPED, MANUAL_MATCH, MANUALLY_RESOLVED}
SettledStatuses == {CONFIRMED, MANUAL_MATCH, MANUALLY_RESOLVED}

\* ------------------------------------------------------------ the records
\* Surname tokens as _extract_potential_surnames returns them (lower-cased
\* by _calculate_name_score before comparison).
SMITH == <<"s", "m", "i", "t", "h">>
JONES == <<"j", "o", "n", "e", "s">>

\* The rows of the two input files, by data set.  A BankTransaction row
\* (id BANK_000b, b its position): members are the forename+surname names
\* of the first two member numbers of the description that the member
\* lookup resolves.  A BeaconEntry row (id BEACON_000e): trans_no is the
\* reference text, a prefix and the digits that follow it (num -1: none).
Bank(amount, date, surnames, members) ==
  [amount |-> amount, date |-> date, surnames |-> surnames, members |-> members]

Beacon(amount, date, num, surnames, member_1) ==
  [amount |-> amount, date |-> date, trans_no |-> [pre |-> "", num |-> num],
   surnames |-> surnames, member_1 |-> member_1]

DataSets ==
  << \* 1: two candidates for one transaction, a pair that shares an entry
     [bank_transactions |->
        << Bank(2000, 10, <<SMITH>>, <<>>),
           Bank(3300, 10, <<JONES>>, <<>>) >>,
      beacon_entries |->
        << Beacon(2000, 10, 101, <<SMITH>>, ""),
           Beacon(1300, 11, 102, <<JONES>>, ""),
           Beacon(2000, 12, 110, <<JONES>>, "") >>],
     \* 2: common amounts, member numbers, a pair of equal amounts
     [bank_transactions |->
        << Bank(1300, 10, <<JONES>>, <<"JOJONES">>),
           Bank(2600, 10, <<JONES>>, <<>>) >>,
      beacon_entries |->
        << Beacon(1300, 11, 201, <<JONES>>, "JOJONES"),
           Beacon(1300, 12, 202, <<JONES>>, ""),
           Beacon(1300, 30, 203, <<JONES>>, "JOJONES") >>],
     \* 3: two member numbers in one description, a transaction without
     \* candidates
     [bank_transactions |->
        << Bank(3300, 10, <<SMITH>>, <<"JOJONES", "ALSMITH">>),
           Bank(500, 10, <<JONES>>, <<>>) >>,
      beacon_entries |->
        << Beacon(1300, 11, 301, <<JONES>>, "JOJONES"),
           Beacon(2000, 11, 320, <<SMITH>>, "ALSMITH"),
           Beacon(700, 11, 321, <<JONES>>, "") >>] >>

VARIABLES
  bank_transactions,   \* self.bank_transactions: the rows of the bank file
  beacon_entries       \* self.beacon_entries: the rows of the ledger file

BankIds == 1..Len(bank_transactions)
EntryIds == 1..Len(beacon_entries)
Oids == 1..MaxObjs

\* ------------------------------------------------------ sequence helpers
Range(q) == {q[i] : i \in 1..Len(q)}

RECURSIVE SumSeq(_)
SumSeq(q) == IF q = <<>> THEN 0 ELSE Head(q) + SumSeq(Tail(q))

RECURSIVE Concat(_)
Concat(qq) == IF qq = <<>> THEN <<>> ELSE Head(qq) \o Concat(Tail(qq))

Max2(a, b) == IF a >= b THEN a ELSE b
Min2(a, b) == IF a <= b THEN a ELSE b
Abs(x) == IF x < 0 THEN -x ELSE x
MaxOf(S) == CHOOSE x \in S : \A y \in S : x >= y
MinOf(S) == CHOOSE x \in S : \A y \in S : x <= y

\* the order of Python tuples of the same length
TupleLess(k1, k2) ==
  \E i \in 1..Len(k1) : k1[i] < k2[i] /\ \A j \in 1..(i - 1) : k1[j] = k2[j]

\* the place of index x in the sorted list of indices r: before the first
\* one whose key sorts after the key of x
InsertPos(r, x, keys) ==
  IF \E i \in 1..Len(r) : TupleLess(keys[x], keys[r[i]])
  THEN MinOf({i \in 1..Len(r) : TupleLess(keys[x], keys[r[i]])}) - 1
  ELSE Len(r)

InsertAt(r, x, pos) == SubSeq(r, 1, pos) \o <<x>> \o SubSeq(r, pos + 1, Len(r))

\* the indices of keys in the order of a stable sort
SortedIndices(keys) ==
  LET f[i \in 0..Len(keys)] ==
        IF i = 0 THEN <<>> ELSE InsertAt(f[i-1], i, InsertPos(f[i-1], i, keys))
  IN f[Len(keys)]

\* list.sort(key=...) : a stable sort; keys[i] is the key of q[i]
StableSort(q, keys) == [i \in 1..Len(q) |-> q[SortedIndices(keys)[i]]]

\* ---------------------------------------------------------- Scoring Model
\* the tiers of _calculate_date_score for days_diff = beacon_date - bank_date
DateTier(days_diff, tolerance) ==
  IF days_diff >= 0
  THEN IF days_diff > tolerance THEN 0
       ELSE IF days_diff = 0 THEN 100000
       ELSE IF days_diff = 1 THEN 95000
       ELSE IF days_diff = 2 THEN 90000
       ELSE IF days_diff = 3 THEN 80000
       ELSE IF days_diff <= 7 THEN 60000
       ELSE IF days_diff <= 14 THEN 40000
       ELSE IF days_diff <= 28 THEN 25000
       ELSE IF days_diff <= 42 THEN 15000
       ELSE 10000
  ELSE IF days_diff = -1 THEN 50000
       ELSE IF days_diff = -2 THEN 25000
       ELSE 0

_calculate_date_score(bank_date, beacon_date, tolerance) ==
  DateTier(beacon_date - bank_date, tolerance)

IsPrefix(a, b) == Len(a) <= Len(b) /\ SubSeq(b, 1, Len(a)) = a
IsSubstring(a, b) ==
  \E i \in 1..(Len(b) - Len(a) + 1) : SubSeq(b, i, i + Len(a) - 1) = a

\* the longest of the common blocks, of those the one that starts
\* earliest in a, of those the one that starts earliest in b
BestBlock(Blocks, alo, blo) ==
  IF Blocks = {} THEN <<alo, blo, 0>>
  ELSE CHOOSE t \in Blocks : \A u \in Blocks :
         \/ t[3] > u[3]
         \/ t[3] = u[3] /\ t[1] < u[1]
         \/ t[3] = u[3] /\ t[1] = u[1] /\ t[2] <= u[2]

\* difflib.SequenceMatcher.find_longest_match on a[alo..ahi], b[blo..bhi]
\* (1-based, inclusive)
FindLongestMatch(a, alo, ahi, b, blo, bhi) ==
  BestBlock({t \in (alo..ahi) \X (blo..bhi) \X (1..Max2(0, Min2(ahi - alo, bhi - blo) + 1)) :
               /\ t[1] + t[3] - 1 <= ahi
               /\ t[2] + t[3] - 1 <= bhi
               /\ SubSeq(a, t[1], t[1] + t[3] - 1) = SubSeq(b, t[2], t[2] + t[3] - 1)},
            alo, blo)

\* the number of matched characters of SequenceMatcher.get_matching_blocks:
\* the block t, then the blocks to its left and to its right
RECURSIVE MatchingChars(_, _, _, _, _, _)
AroundBlock(a, alo, ahi, b, blo, bhi, t) ==
  IF t[3] = 0 THEN 0
  ELSE t[3] + MatchingChars(a, alo, t[1] - 1, b, blo, t[2] - 1)
            + MatchingChars(a, t[1] + t[3], ahi, b, t[2] + t[3], bhi)

MatchingChars(a, alo, ahi, b, blo, bhi) ==
  IF alo > ahi \/ blo > bhi THEN 0
  ELSE AroundBlock(a, alo, ahi, b, blo, bhi, FindLongestMatch(a, alo, ahi, b, blo, bhi))

\* the fuzzy branch of _compare_surnames: ratio()*0.7 if ratio() >= 0.9,
\* with ratio = 2M/T, truncated to the score unit
FuzzyScore(M, T) == IF 20 * M >= 9 * T THEN (140000 * M) \div T ELSE 0

_compare_surnames(bank_surname, beacon_surname) ==
  IF bank_surname = <<>> \/ beacon_surname = <<>> THEN 0
  ELSE IF bank_surname = beacon_surname THEN 90000
  ELSE IF /\ Len(bank_surname) >= 5 /\ Len(beacon_surname) >= 5
          /\ (IsPrefix(bank_surname, beacon_surname) \/ IsPrefix(beacon_surname, bank_surname))
       THEN 85000
  ELSE IF /\ Len(bank_surname) >= 5 /\ Len(beacon_surname) >= 5
          /\ (IsSubstring(bank_surname, beacon_surname) \/ IsSubstring(beacon_surname, bank_surname))
       THEN 70000
  ELSE IF Len(bank_surname) >= 6 /\ Len(beacon_surname) >= 6
       THEN FuzzyScore(MatchingChars(bank_surname, 1, Len(bank_surname),
                                     beacon_surname, 1, Len(beacon_surname)),
                       Len(bank_surname) + Len(beacon_surname))
  ELSE 0

\* _calculate_name_score over the two lists of potential surnames: the
\* first pair scoring >= 0.9 ends the scan, otherwise the best pair wins
_calculate_name_score(bank_surnames, beacon_surnames) ==
  IF bank_surnames = <<>> \/ beacon_surnames = <<>> THEN 30000
  ELSE MaxOf({_compare_surnames(bank_surnames[i], beacon_surnames[j]) :
                i \in 1..Len(bank_surnames), j \in 1..Len(beacon_surnames)})

\* _calculate_amount_score
_calculate_amount_score(amount) == IF amount \in COMMON_AMOUNTS THEN 30000 ELSE 100000

\* the weights of _calculate_confidence, in hundredths
Weights(amount) ==
  IF amount \in COMMON_AMOUNTS
  THEN [amount |-> 10, date |-> 45, name |-> 45]
  ELSE [amount |-> 30, date |-> 35, name |-> 35]

Clip(confidence) == Min2(ConfOne, Max2(0, confidence))

\* _calculate_confidence: the result is in units of 1e-8 (sub-score unit
\* 1e-5 times weight unit 1e-2 times 10)
_calculate_confidence(amount_score, date_score, name_score, amount) ==
  Clip(10 * (Weights(amount).amount * amount_score + Weights(amount).date * date_score
             + Weights(amount).name * name_score))

\* ------------------------------------------------------------ Record Model
\* A MatchSuggestion object.  id is <<"MATCH", n>>, <<"MANUAL", bank>> or
\* <<"RESOLVED", bank>> (and <<"", 0>> before an identifier is assigned).
\* loaded: the object was deserialised by from_dict, so its bank
\* transaction and its entries are private copies (raw_data is empty, the
\* matched flags are its own, kept in copy_matched).
NewSuggestion(id, bank, entries, confidence, match_type, status, ascore, dscore, nscore) ==
  [id |-> id, bank |-> bank, beacon_entries |-> entries,
   confidence_score |-> confidence, match_type |-> match_type, status |-> status,
   amount_score |-> ascore, date_score |-> dscore, name_score |-> nscore,
   comment |-> "", loaded |-> FALSE, copy_matched |-> <<>>]

\* an unused heap slot
NoObj == NewSuggestion(<<"", 0>>, 0, <<>>, 0, "", "free", 0, 0, 0)

\* the ledger-entry identifiers a proposal references
BeaconIdsOf(rec) == Range(rec.beacon_entries)

\* the places of lst that hold x or an object equal to x
Places(heap, lst, o) == {i \in 1..Len(lst) : lst[i] = o \/ heap[lst[i]] = heap[o]}

\* x in lst: identity first, then dataclass equality
InList(heap, lst, o) == Places(heap, lst, o) # {}

DropAt(lst, k) == SubSeq(lst, 1, k - 1) \o SubSeq(lst, k + 1, Len(lst))

\* if x in lst: lst.remove(x) : drops the first element that is x or equals x
ListRemove(heap, lst, o) ==
  IF ~InList(heap, lst, o) THEN lst ELSE DropAt(lst, MinOf(Places(heap, lst, o)))

SetStatus(heap, o, st) == [heap EXCEPT ![o].status = st]

\* beacon.matched = flag for every entry of proposal o: the pool entry for
\* a generated or manual proposal, the private copy for a loaded one
SetEntryFlags(s, o, flag) ==
  IF s.heap[o].loaded
  THEN [s EXCEPT !.heap[o].copy_matched = [i \in 1..Len(s.heap[o].beacon_entries) |-> flag]]
  ELSE [s EXCEPT !.matched = [e \in DOMAIN s.matched |->
                                IF e \in BeaconIdsOf(s.heap[o]) THEN flag ELSE s.matched[e]]]

\* ------------------------------------------------- Match Lifecycle Manager
\* suggestion.status = REJECTED; rejected_bank_ids.add(...); append to
\* rejected_matches unless an equal object is there
MarkRejected(s, o) ==
  [s EXCEPT !.heap = SetStatus(@, o, REJECTED),
            !.rejected_bank_ids = @ \cup {s.heap[o].bank},
            !.rejected_matches = IF InList(SetStatus(s.heap, o, REJECTED), @, o)
                                 THEN @ ELSE Append(@, o)]

\* the loop body shared by _reject_matches_with_beacons,
\* _reject_matches_for_bank and _restore_rejected_status, applied to the
\* proposals of todo in order: only a pending proposal is rejected
RECURSIVE RejectEach(_, _)
RejectEach(s, todo) ==
  IF todo = <<>> THEN s
  ELSE IF s.heap[Head(todo)].status # PENDING THEN RejectEach(s, Tail(todo))
  ELSE RejectEach(MarkRejected(s, Head(todo)), Tail(todo))

_reject_matches_for_bank(s, bank_id, exclude_match) ==
  RejectEach(s, SelectSeq(s.match_suggestions,
                          LAMBDA o : o # exclude_match /\ s.heap[o].bank = bank_id))

\* a cascade that looks at the first entry of a proposal only
RejectMatchesWithFirstBeacon(s, beacon_ids, exclude_match) ==
  RejectEach(s, SelectSeq(s.match_suggestions,
                          LAMBDA o : o # exclude_match
                                     /\ s.heap[o].beacon_entries # <<>>
                                     /\ Head(s.heap[o].beacon_entries) \in beacon_ids))

_reject_matches_with_beacons(s, beacon_ids, exclude_match) ==
  RejectEach(s, SelectSeq(s.match_suggestions,
                          LAMBDA o : o # exclude_match
                                     /\ BeaconIdsOf(s.heap[o]) \cap beacon_ids # {}))

\* the first half of confirm_match: the status, the confirmed collection,
\* the claimed set and the entry flags
ClaimEntries(s, m) ==
  SetEntryFlags([s EXCEPT !.heap = SetStatus(@, m, CONFIRMED),
                          !.confirmed_matches = Append(@, m),
                          !.matched_beacon_ids = @ \cup BeaconIdsOf(s.heap[m])],
                m, TRUE)

confirm_match(s, m) ==
  _reject_matches_for_bank(
    _reject_matches_with_beacons(ClaimEntries(s, m), BeaconIdsOf(s.heap[m]), m),
    s.heap[m].bank, m)

reject_match(s, m) == MarkRejected(s, m)

skip_match(s, m) == [s EXCEPT !.heap = SetStatus(@, m, SKIPPED)]

\* an undo that also takes back the rejection of the proposals that share
\* an entry with the proposal undone
UndoWithSiblings(s, m) ==
  [SetEntryFlags([s EXCEPT !.confirmed_matches = ListRemove(s.heap, @, m),
                           !.matched_beacon_ids = @ \ BeaconIdsOf(s.heap[m])],
                 m, FALSE)
     EXCEPT !.heap = [o \in Oids |->
                        IF o = m \/ (s.heap[o].status = REJECTED
                                      /\ BeaconIdsOf(s.heap[o]) \cap BeaconIdsOf(s.heap[m]) # {})
                        THEN [@[o] EXCEPT !.status = PENDING]
                        ELSE @[o]]]

\* an undo that takes the proposal out of the confirmed collection and
\* leaves its entries claimed
UndoKeepsClaims(s, m) ==
  [s EXCEPT !.confirmed_matches = ListRemove(s.heap, @, m),
            !.heap = SetStatus(@, m, PENDING)]

undo_confirmation(s, m) ==
  [SetEntryFlags([s EXCEPT !.confirmed_matches = ListRemove(s.heap, @, m),
                           !.matched_beacon_ids = @ \ BeaconIdsOf(s.heap[m])],
                 m, FALSE)
     EXCEPT !.heap = SetStatus(@, m, PENDING)]

\* an undo that leaves the proposal in rejected_matches
UndoLeavesListed(s, m) ==
  [s EXCEPT !.rejected_bank_ids = @ \ {s.heap[m].bank},
            !.heap = SetStatus(@, m, PENDING)]

undo_rejection(s, m) ==
  [s EXCEPT !.rejected_matches = ListRemove(s.heap, @, m),
            !.rejected_bank_ids = @ \ {s.heap[m].bank},
            !.heap = SetStatus(@, m, PENDING)]

\* the four "if changing from ..." blocks of update_match_status; they
\* test the status the proposal had on entry, so at most one of them runs
UndoOld(s, m, old_status, new_status) ==
  IF old_status = CONFIRMED /\ new_status # CONFIRMED THEN undo_confirmation(s, m)
  ELSE IF old_status = MANUAL_MATCH /\ new_status # MANUAL_MATCH THEN undo_confirmation(s, m)
  ELSE IF old_status = MANUALLY_RESOLVED /\ new_status # MANUALLY_RESOLVED
       THEN [s EXCEPT !.confirmed_matches = ListRemove(s.heap, @, m),
                      !.heap = SetStatus(@, m, PENDING)]
  ELSE IF old_status = REJECTED /\ new_status # REJECTED THEN undo_rejection(s, m)
  ELSE s

\* the "if changing to ..." chain of update_match_status
ApplyNew(s, m, old_status, new_status) ==
  IF new_status = CONFIRMED /\ old_status # CONFIRMED THEN confirm_match(s, m)
  ELSE IF new_status = REJECTED /\ old_status # REJECTED THEN reject_match(s, m)
  ELSE [s EXCEPT !.heap = SetStatus(@, m, new_status)]

update_match_status(s, m, new_status) ==
  ApplyNew(UndoOld(s, m, s.heap[m].status, new_status), m, s.heap[m].status, new_status)

\* ------------------------------------------------------------ Auto-Confirmer
\* the threshold of _auto_confirm_matches for a bank amount
AutoConfirmThreshold(amount) ==
  IF amount \in COMMON_AMOUNTS THEN AUTO_CONFIRM_COMMON_THRESHOLD
  ELSE AUTO_CONFIRM_OTHER_THRESHOLD

\* a loop of _auto_confirm_matches that confirms no proposal
AutoConfirmsNothing(rec, bank_amount) == FALSE

\* the comparison of _auto_confirm_matches with >= in the place of >
AutoConfirmsAtThreshold(rec, bank_amount) ==
  /\ rec.status = PENDING
  /\ rec.beacon_entries # <<>>
  /\ rec.confidence_score >= AutoConfirmThreshold(bank_amount)

\* a loop of _auto_confirm_matches that does not look at the status
AutoConfirmsAgain(rec, bank_amount) ==
  /\ rec.beacon_entries # <<>>
  /\ rec.confidence_score > AutoConfirmThreshold(bank_amount)

\* whether the loop of _auto_confirm_matches confirms the proposal rec
AutoConfirms(rec, bank_amount) ==
  /\ rec.status = PENDING
  /\ rec.beacon_entries # <<>>
  /\ rec.confidence_score > AutoConfirmThreshold(bank_amount)

\* the loop of _auto_confirm_matches over the proposals of todo; the
\* result is <<session, count>>
RECURSIVE AutoConfirmEach(_, _, _)
AutoConfirmEach(s, todo, count) ==
  IF todo = <<>> THEN <<s, count>>
  ELSE IF ~AutoConfirms(s.heap[Head(todo)], bank_transactions[s.heap[Head(todo)].bank].amount)
  THEN AutoConfirmEach(s, Tail(todo), count)
  ELSE AutoConfirmEach(confirm_match(s, Head(todo)), Tail(todo), count + 1)

_auto_confirm_matches(s) == AutoConfirmEach(s, s.match_suggestions, 0)

\* -------------------------------------------------------- Candidate Generator
\* _trans_no_within_range: int() succeeds on pure digits, the fallback takes
\* the first run of digits; either way two references that both carry
\* digits are compared numerically, and a reference without digits fails
_trans_no_within_range(trans_no1, trans_no2, max_diff) ==
  IF trans_no1.num < 0 \/ trans_no2.num < 0 THEN FALSE
  ELSE Abs(trans_no1.num - trans_no2.num) <= max_diff

\* an index that does not tell the amounts apart
EveryAvailable(available, amount) == available

\* _beacon_by_amount[amount] of _build_beacon_index: the available entries
\* of that amount, in pool order
BeaconByAmount(available, amount) ==
  SelectSeq(available, LAMBDA e : beacon_entries[e].amount = amount)

RECURSIVE Ascending(_)
Ascending(S) == IF S = {} THEN <<>> ELSE <<MinOf(S)>> \o Ascending(S \ {MinOf(S)})

\* _beacon_amounts, visited in ascending order (the set's iteration order
\* is a fixed function of the amounts)
BeaconAmounts(available) == Ascending({beacon_entries[e].amount : e \in Range(available)})

DateScoreOf(b, e, tolerance) ==
  _calculate_date_score(bank_transactions[b].date, beacon_entries[e].date, tolerance)

NameScoreOf(b, e) ==
  _calculate_name_score(bank_transactions[b].surnames, beacon_entries[e].surnames)

\* the loop body of _find_one_to_one_matches_fast for the entry e
OneToOneItem(b, e, date_score, name_score, amount_score) ==
  IF date_score = 0 THEN <<>>
  ELSE IF name_score = 0 /\ bank_transactions[b].amount \in COMMON_AMOUNTS THEN <<>>
  ELSE << NewSuggestion(<<"", 0>>, b, <<e>>,
            _calculate_confidence(amount_score, date_score, name_score,
                                  bank_transactions[b].amount),
            "1-to-1", PENDING, amount_score, date_score, name_score) >>

OneToOneOver(b, bucket, tolerance) ==
  Concat([i \in 1..Len(bucket) |->
            OneToOneItem(b, bucket[i], DateScoreOf(b, bucket[i], tolerance),
                         NameScoreOf(b, bucket[i]),
                         _calculate_amount_score(bank_transactions[b].amount))])

_find_one_to_one_matches_fast(b, available, tolerance) ==
  OneToOneOver(b, BeaconByAmount(available, bank_transactions[b].amount), tolerance)

\* the amount score of a pair, from whether each amount is common
TwoAmountScore(is_common1, is_common2) ==
  IF is_common1 /\ is_common2 THEN 30000
  ELSE IF is_common1 \/ is_common2 THEN 60000
  ELSE 100000

\* a pair without the 10% penalty
TwoMatchUndiscounted(b, entries, amount_score, date_score, name_score) ==
  NewSuggestion(<<"", 0>>, b, entries,
                _calculate_confidence(amount_score, date_score, name_score,
                                      bank_transactions[b].amount),
                "1-to-2", PENDING, amount_score, date_score, name_score)

\* the MatchSuggestion _create_two_match returns: base confidence * 0.9
TwoMatchRecord(b, entries, amount_score, date_score, name_score) ==
  NewSuggestion(<<"", 0>>, b, entries,
                (_calculate_confidence(amount_score, date_score, name_score,
                                       bank_transactions[b].amount) * 9) \div 10,
                "1-to-2", PENDING, amount_score, date_score, name_score)

\* a discard that one common amount is enough for
TwoMatchEitherCommon(b, entries, date_score, name_score, is_common1, is_common2) ==
  IF name_score = 0 /\ (is_common1 \/ is_common2) THEN <<>>
  ELSE << TwoMatchRecord(b, entries, TwoAmountScore(is_common1, is_common2),
                         date_score, name_score) >>

TwoMatchOrNone(b, entries, date_score, name_score, is_common1, is_common2) ==
  IF name_score = 0 /\ (is_common1 /\ is_common2) THEN <<>>
  ELSE << TwoMatchRecord(b, entries, TwoAmountScore(is_common1, is_common2),
                         date_score, name_score) >>

\* _create_two_match: <<>> stands for None
_create_two_match(b, beacon1, beacon2, date_score1, date_score2) ==
  TwoMatchOrNone(b, <<beacon1, beacon2>>,
                 (date_score1 + date_score2) \div 2,
                 (NameScoreOf(b, beacon1) + NameScoreOf(b, beacon2)) \div 2,
                 beacon_entries[beacon1].amount \in COMMON_AMOUNTS,
                 beacon_entries[beacon2].amount \in COMMON_AMOUNTS)

\* the inner loop body of _find_one_to_two_matches_fast
TryPair(b, b1, b2, date_score1, date_score2, trans_no_limit) ==
  IF ~_trans_no_within_range(beacon_entries[b1].trans_no, beacon_entries[b2].trans_no,
                             trans_no_limit)
  THEN <<>>
  ELSE IF date_score2 = 0 THEN <<>>
  ELSE _create_two_match(b, b1, b2, date_score1, date_score2)

\* the outer loop body: b1 against each of its partners
PairsFrom(b, b1, date_score1, partners, tolerance, trans_no_limit) ==
  IF date_score1 = 0 THEN <<>>
  ELSE Concat([j \in 1..Len(partners) |->
                 TryPair(b, b1, partners[j], date_score1,
                         DateScoreOf(b, partners[j], tolerance), trans_no_limit)])

\* a loop without checked_pairs: a pair of different amounts is visited
\* from both sides
ForAmountsTwice(b, amount1, amount2, beacons1, beacons2, amounts, tolerance, trans_no_limit) ==
  IF amount2 \notin Range(amounts) THEN <<>>
  ELSE Concat([i \in 1..Len(beacons1) |->
                 PairsFrom(b, beacons1[i], DateScoreOf(b, beacons1[i], tolerance),
                           IF amount1 = amount2 THEN SubSeq(beacons1, i + 1, Len(beacons1))
                           ELSE beacons2,
                           tolerance, trans_no_limit)])

\* one amount1 of the loop over _beacon_amounts; a pair of amounts is
\* checked once, at the smaller of the two
ForAmounts(b, amount1, amount2, beacons1, beacons2, amounts, tolerance, trans_no_limit) ==
  IF amount2 \notin Range(amounts) \/ amount2 < amount1 THEN <<>>
  ELSE IF amount1 = amount2
  THEN Concat([i \in 1..Len(beacons1) |->
                 PairsFrom(b, beacons1[i], DateScoreOf(b, beacons1[i], tolerance),
                           SubSeq(beacons1, i + 1, Len(beacons1)),
                           tolerance, trans_no_limit)])
  ELSE Concat([i \in 1..Len(beacons1) |->
                 PairsFrom(b, beacons1[i], DateScoreOf(b, beacons1[i], tolerance),
                           beacons2, tolerance, trans_no_limit)])

OneToTwoOver(b, available, amounts, tolerance, trans_no_limit) ==
  Concat([k \in 1..Len(amounts) |->
            ForAmounts(b, amounts[k], bank_transactions[b].amount - amounts[k],
                       BeaconByAmount(available, amounts[k]),
                       BeaconByAmount(available, bank_transactions[b].amount - amounts[k]),
                       amounts, tolerance, trans_no_limit)])

_find_one_to_two_matches_fast(b, available, tolerance, trans_no_limit) ==
  OneToTwoOver(b, available, BeaconAmounts(available), tolerance, trans_no_limit)

\* the first n elements of q
Prefix(q, n) == SubSeq(q, 1, Min2(n, Len(q)))

\* _find_beacon_by_member_name: at most 10 entries whose member_1 is the name
_find_beacon_by_member_name(member_name, available) ==
  Prefix(SelectSeq(available, LAMBDA e : beacon_entries[e].member_1 # ""
                                         /\ beacon_entries[e].member_1 = member_name),
         10)

\* the MatchSuggestion of a member-number match
Memno(b, entries, match_type) ==
  NewSuggestion(<<"", 0>>, b, entries, MEMBER_MATCH_CONFIDENCE, match_type, PENDING,
                100000, 50000, 100000)

\* one member number: a proposal for each entry of the bank amount
MemnoOne(b, matching_beacons) ==
  Concat([i \in 1..Len(matching_beacons) |->
            IF beacon_entries[matching_beacons[i]].amount = bank_transactions[b].amount
            THEN << Memno(b, <<matching_beacons[i]>>, "1-to-1") >> ELSE <<>>])

FirstPair(b, pairs) == IF pairs = <<>> THEN <<>> ELSE << Memno(b, pairs[1], "1-to-2") >>

\* two member numbers: the first pair of distinct entries that sums to
\* the bank amount
MemnoTwo(b, beacons1, beacons2) ==
  FirstPair(b, Concat([i \in 1..Len(beacons1) |->
                 Concat([j \in 1..Len(beacons2) |->
                   IF /\ beacons1[i] # beacons2[j]
                      /\ beacon_entries[beacons1[i]].amount
                           + beacon_entries[beacons2[j]].amount = bank_transactions[b].amount
                   THEN << <<beacons1[i], beacons2[j]>> >> ELSE <<>>])]))

\* the proposals _generate_member_number_matches creates for one bank
\* transaction (identifiers are assigned by the caller, in order)
MemberNumberMatchesFor(b, member_names, available) ==
  IF Len(member_names) = 0 THEN <<>>
  ELSE IF Len(member_names) = 1
  THEN MemnoOne(b, _find_beacon_by_member_name(member_names[1], available))
  ELSE MemnoTwo(b, _find_beacon_by_member_name(member_names[1], available),
                _find_beacon_by_member_name(member_names[2], available))

_generate_member_number_matches(bank_to_process, available) ==
  Concat([i \in 1..Len(bank_to_process) |->
            MemberNumberMatchesFor(bank_to_process[i],
                                   bank_transactions[bank_to_process[i]].members,
                                   available)])

\* ------------------------------------------------------- the object heap
\* the objects the session still references
Live(s) == Range(s.match_suggestions) \cup Range(s.confirmed_matches)
             \cup Range(s.rejected_matches)

\* objects that no collection references are released
Collect(s) == [s EXCEPT !.heap = [o \in Oids |-> IF o \in Live(s) THEN s.heap[o] ELSE NoObj]]

FreeSlots(heap) == {o \in Oids : heap[o] = NoObj}

\* the k lowest free slots, ascending
LowestFree(free, k) == Prefix(Ascending(free), k)

\* ----------------------------------------------------- generate_suggestions
\* _sort_suggestions: by bank transaction, status priority, confidence
StatusPriority(st) ==
  IF st = CONFIRMED THEN 0
  ELSE IF st = SKIPPED THEN 2
  ELSE IF st = REJECTED THEN 3
  ELSE 1

SortKey(rec) == <<rec.bank, StatusPriority(rec.status), -rec.confidence_score>>

_sort_suggestions(s) ==
  [s EXCEPT !.match_suggestions =
      StableSort(@, [i \in 1..Len(s.match_suggestions) |->
                       SortKey(s.heap[s.match_suggestions[i]])])]

\* a regeneration that restores no rejection
RestoreNothing(s) == s

_restore_rejected_status(s) ==
  RejectEach(s, SelectSeq(s.match_suggestions,
                          LAMBDA o : s.heap[o].bank \in s.rejected_bank_ids))

\* give the records of recs the identifiers MATCH_first, MATCH_first+1, ...
Numbered(recs, first) ==
  [i \in 1..Len(recs) |-> [recs[i] EXCEPT !.id = <<"MATCH", first + i - 1>>]]

\* An item of the working set under construction is [oid, rec]: oid is an
\* existing object carried over, or 0 for a new object with record rec.
AsNew(recs) == [i \in 1..Len(recs) |-> [oid |-> 0, rec |-> recs[i]]]
AsOld(s, objs) == [i \in 1..Len(objs) |-> [oid |-> objs[i], rec |-> s.heap[objs[i]]]]

\* the existing confirmed match found for a bank transaction is appended
\* unless the working set holds it or an equal object
CarryOver(s, items, o) ==
  IF \E i \in 1..Len(items) : items[i].oid = o \/ items[i].rec = s.heap[o]
  THEN items
  ELSE Append(items, [oid |-> o, rec |-> s.heap[o]])

\* the proposals kept for a bank transaction, or its no-match proposal
KeptOrNoMatch(b, kept) ==
  IF kept # <<>> THEN kept
  ELSE << NewSuggestion(<<"", 0>>, b, <<>>, 0, "no-match", PENDING, 0, 0, 0) >>

\* all_matches.sort(key=confidence_score, reverse=True): the stable sort
\* keeps the order of equal keys
ByConfidence(recs) ==
  StableSort(recs, [i \in 1..Len(recs) |-> <<-recs[i].confidence_score>>])

\* one_to_one + one_to_two, sorted by confidence, those of at least
\* MIN_CONFIDENCE_THRESHOLD
FreshFor(b, available, tolerance, trans_no_limit) ==
  KeptOrNoMatch(b,
    SelectSeq(ByConfidence(_find_one_to_one_matches_fast(b, available, tolerance)
                             \o _find_one_to_two_matches_fast(b, available, tolerance,
                                                              trans_no_limit)),
              LAMBDA r : r.confidence_score >= MIN_CONFIDENCE_THRESHOLD))

ConfirmedFor(s, b) == SelectSeq(s.confirmed_matches, LAMBDA o : s.heap[o].bank = b)

\* Step 2 of generate_suggestions for the bank transactions of banks, in
\* order
RECURSIVE ProcessBanks(_, _, _, _, _, _, _, _)
ProcessFresh(s, rest, items, fresh, suggestion_id, memno_matched, available, tolerance, trans_no_limit) ==
  ProcessBanks(s, rest, items \o AsNew(Numbered(fresh, suggestion_id)),
               suggestion_id + Len(fresh), memno_matched, available, tolerance,
               trans_no_limit)

ProcessBanks(s, banks, items, suggestion_id, memno_matched, available, tolerance, trans_no_limit) ==
  IF banks = <<>> THEN items
  ELSE IF Head(banks) \in memno_matched
  THEN ProcessBanks(s, Tail(banks), items, suggestion_id, memno_matched,
                    available, tolerance, trans_no_limit)
  ELSE IF ConfirmedFor(s, Head(banks)) # <<>>
  THEN ProcessBanks(s, Tail(banks), CarryOver(s, items, ConfirmedFor(s, Head(banks))[1]),
                    suggestion_id, memno_matched, available, tolerance, trans_no_limit)
  ELSE ProcessFresh(s, Tail(banks), items,
                    FreshFor(Head(banks), available, tolerance, trans_no_limit),
                    suggestion_id, memno_matched, available, tolerance, trans_no_limit)

\* a numbering that always starts at MATCH_0001
NoExistingId(s) == 0

\* the largest n of the identifiers MATCH_n of the confirmed collection
MaxExistingId(s) ==
  MaxOf({0} \cup {s.heap[o].id[2] : o \in {x \in Range(s.confirmed_matches) :
                                             s.heap[x].id[1] = "MATCH"}})

BankToProcess(s, include_confirmed) ==
  SelectSeq([b \in BankIds |-> b],
            LAMBDA b : include_confirmed
                       \/ b \notin {s.heap[o].bank : o \in Range(s.confirmed_matches)})

\* a pool read from the entries' own flags
UnflaggedBeacon(s) == SelectSeq([e \in EntryIds |-> e], LAMBDA e : ~s.matched[e])

\* a pool that keeps the claimed entries
EveryBeacon(s) == [e \in EntryIds |-> e]

AvailableBeacon(s) ==
  SelectSeq([e \in EntryIds |-> e], LAMBDA e : e \notin s.matched_beacon_ids)

\* Step 1 (the member-number matches memno, numbered from first), then
\* Step 2
StepsOneAndTwo(s, bank_to_process, available, memno, first, tolerance, trans_no_limit) ==
  ProcessBanks(s, bank_to_process, AsNew(Numbered(memno, first)), first + Len(memno),
               {memno[i].bank : i \in 1..Len(memno)}, available, tolerance, trans_no_limit)

\* the working set that generate_suggestions builds before auto-confirm,
\* as items; s already has the cleaned confirmed_matches
GeneratedItems(s, include_confirmed, trans_no_limit, tolerance) ==
  IF BankToProcess(s, include_confirmed) = <<>>
  THEN IF include_confirmed THEN AsOld(s, s.confirmed_matches) ELSE <<>>
  ELSE StepsOneAndTwo(s, BankToProcess(s, include_confirmed), AvailableBeacon(s),
                      _generate_member_number_matches(BankToProcess(s, include_confirmed),
                                                      AvailableBeacon(s)),
                      MaxExistingId(s) + 1, tolerance, trans_no_limit)

\* the positions of items that are new objects
NewPlaces(items) == SelectSeq([i \in 1..Len(items) |-> i], LAMBDA i : items[i].oid = 0)

IndexOf(q, x) == MinOf({k \in 1..Len(q) : q[k] = x})

\* the new objects of items, at newIdx, take the heap slots of slots
Place(s, items, newIdx, slots) ==
  [s EXCEPT !.heap = [o \in Oids |->
                        IF o \in Range(slots) THEN items[newIdx[IndexOf(slots, o)]].rec
                        ELSE s.heap[o]],
            !.match_suggestions = [i \in 1..Len(items) |->
                                     IF items[i].oid = 0 THEN slots[IndexOf(newIdx, i)]
                                     ELSE items[i].oid]]

\* place the new objects of items in the lowest free slots of the heap and
\* make the items the working set
Allocate(s, items) ==
  Place(s, items, NewPlaces(items), LowestFree(FreeSlots(s.heap), Len(NewPlaces(items))))

\* date_tolerance_days = -1 stands for None
Tolerance(s, date_tolerance_days) ==
  IF date_tolerance_days # -1 THEN date_tolerance_days ELSE s.date_tolerance_days

\* the head of generate_suggestions: the tolerance, the empty working set,
\* the confirmed collection cleaned of proposals that are no longer settled
Prepare(s, date_tolerance_days) ==
  Collect([s EXCEPT !.date_tolerance_days = Tolerance(s, date_tolerance_days),
                    !.match_suggestions = <<>>,
                    !.confirmed_matches =
                        SelectSeq(@, LAMBDA o : s.heap[o].status \in SettledStatuses)])

\* the tail of generate_suggestions on the working set built
Finish(s, nothing_to_process, auto_confirm) ==
  IF nothing_to_process THEN _sort_suggestions(s)
  ELSE IF auto_confirm
  THEN _sort_suggestions(_restore_rejected_status(_auto_confirm_matches(s)[1]))
  ELSE _sort_suggestions(_restore_rejected_status(s))

Generate(s, include_confirmed, trans_no_limit, auto_confirm) ==
  Finish(Allocate(s, GeneratedItems(s, include_confirmed, trans_no_limit,
                                    s.date_tolerance_days)),
         BankToProcess(s, include_confirmed) = <<>>, auto_confirm)

\* generate_suggestions(include_confirmed, trans_no_limit, auto_confirm,
\* date_tolerance_days)
generate_suggestions(s, include_confirmed, trans_no_limit, auto_confirm, date_tolerance_days) ==
  Generate(Prepare(s, date_tolerance_days), include_confirmed, trans_no_limit, auto_confirm)

\* whether the heap and the identifier range have room for items
Fits(s, items) ==
  /\ Len(NewPlaces(items)) <= Cardinality(FreeSlots(s.heap))
  /\ \A i \in 1..Len(items) : items[i].oid = 0 => items[i].rec.id[2] <= MaxMatchId

GenerateFits(s, include_confirmed, trans_no_limit, date_tolerance_days) ==
  Fits(Prepare(s, date_tolerance_days),
       GeneratedItems(Prepare(s, date_tolerance_days), include_confirmed, trans_no_limit,
                      Tolerance(s, date_tolerance_days)))

\* ---------------------------------------------------- Manual Override Handler
\* find_beacon_by_trans_no: the first pool entry with that reference, 0 for None
find_beacon_by_trans_no(trans_no) ==
  IF \E e \in EntryIds : beacon_entries[e].trans_no = trans_no
  THEN MinOf({e \in EntryIds : beacon_entries[e].trans_no = trans_no})
  ELSE 0

FoundEntries(trans_nos) ==
  [i \in 1..Len(trans_nos) |-> find_beacon_by_trans_no(trans_nos[i])]

\* a validation without the amount check
CheckFoundWithoutAmount(s, b, found) ==
  IF \E i \in 1..Len(found) : found[i] = 0 \/ found[i] \in s.matched_beacon_ids
  THEN IF found[MinOf({i \in 1..Len(found) :
                         found[i] = 0 \/ found[i] \in s.matched_beacon_ids})] = 0
       THEN "not_found" ELSE "already_matched"
  ELSE "ok"

\* the outcome of the validation loop over the entries found: the reason
\* of the first entry that fails, then the amount check
CheckFound(s, b, found) ==
  IF \E i \in 1..Len(found) : found[i] = 0 \/ found[i] \in s.matched_beacon_ids
  THEN IF found[MinOf({i \in 1..Len(found) :
                         found[i] = 0 \/ found[i] \in s.matched_beacon_ids})] = 0
       THEN "not_found" ELSE "already_matched"
  ELSE IF bank_transactions[b].amount
            # SumSeq([i \in 1..Len(found) |-> beacon_entries[found[i]].amount])
  THEN "amount_mismatch"
  ELSE "ok"

\* the validation of create_manual_match: "ok", or the reason of the
\* first check that fails
ManualMatchCheck(s, b, trans_nos) == CheckFound(s, b, FoundEntries(trans_nos))

\* the tuple (success, message, match) a manual operation returns, with the
\* session it leaves; match is the object created, 0 for None
Outcome(session, success, message, match) ==
  [session |-> session, success |-> success, message |-> message, match |-> match]

\* the new object o joins the confirmed collection and claims its entries
AddSettled(s, o, match) ==
  [s EXCEPT !.heap[o] = match,
            !.matched = [e \in DOMAIN s.matched |->
                           IF e \in BeaconIdsOf(match) THEN TRUE ELSE s.matched[e]],
            !.matched_beacon_ids = @ \cup BeaconIdsOf(match),
            !.confirmed_matches = Append(@, o)]

\* the object a manual operation creates takes the lowest free heap slot
NextSlot(s) == LowestFree(FreeSlots(s.heap), 1)[1]

ManualMatchRecord(b, entries) ==
  NewSuggestion(<<"MANUAL", b>>, b, entries, ConfOne, "manual", MANUAL_MATCH,
                100000, 100000, 100000)

\* a create_manual_match that claims the entries it found before it
\* reports a failure
ManualMatchClaimingFirst(s, b, trans_nos, check) ==
  IF check # "ok"
  THEN Outcome([s EXCEPT !.matched_beacon_ids = @ \cup (Range(FoundEntries(trans_nos)) \ {0})],
               FALSE, check, 0)
  ELSE Outcome(AddSettled(s, NextSlot(s), ManualMatchRecord(b, FoundEntries(trans_nos))),
               TRUE, "created", NextSlot(s))

\* create_manual_match: a validation that fails returns before anything is
\* written
ManualMatchAfter(s, b, trans_nos, check) ==
  IF check # "ok" THEN Outcome(s, FALSE, check, 0)
  ELSE Outcome(AddSettled(s, NextSlot(s), ManualMatchRecord(b, FoundEntries(trans_nos))),
               TRUE, "created", NextSlot(s))

create_manual_match(s, b, trans_nos) ==
  ManualMatchAfter(s, b, trans_nos, ManualMatchCheck(s, b, trans_nos))

create_manually_resolved(s, b, comment) ==
  Outcome(AddSettled(s, NextSlot(s),
                     [NewSuggestion(<<"RESOLVED", b>>, b, <<>>, ConfOne, "resolved",
                                    MANUALLY_RESOLVED, 0, 0, 0) EXCEPT !.comment = comment]),
          TRUE, "resolved", NextSlot(s))

\* ------------------------------------------------------ Consistency Checker
\* An item of the report is [primary, reason, related]: the reason stands for
\* the text, <<"multiple", entry, identifiers of the proposals>> or
\* <<"amount", bank amount, total of the entries>>.

\* a check that trusts the membership of confirmed_matches
EveryMember(s) == s.confirmed_matches

\* the members of confirmed_matches whose status is confirmed
actually_confirmed(s) ==
  SelectSeq(s.confirmed_matches, LAMBDA o : s.heap[o].status = CONFIRMED)

\* proposal o, once for every reference it makes to entry e
Mentions(s, o, e) ==
  [i \in 1..Len(SelectSeq(s.heap[o].beacon_entries, LAMBDA x : x = e)) |-> o]

\* beacon_to_matches[e] over the proposals of checked
beacon_to_matches(s, checked, e) ==
  Concat([i \in 1..Len(checked) |-> Mentions(s, checked[i], e)])

\* the elements of todo in the order of their first occurrence, after seen
RECURSIVE FirstOccurrences(_, _)
FirstOccurrences(seen, todo) ==
  IF todo = <<>> THEN seen
  ELSE IF Head(todo) \in Range(seen) THEN FirstOccurrences(seen, Tail(todo))
  ELSE FirstOccurrences(Append(seen, Head(todo)), Tail(todo))

\* the entries in the order the loop of check 1 adds them to checked_beacons
checked_beacons(s, checked) ==
  FirstOccurrences(<<>>, Concat([i \in 1..Len(checked) |-> s.heap[checked[i]].beacon_entries]))

\* the entries of beacons that more than one element of beacon_to_matches has
InSeveral(s, checked, beacons) ==
  SelectSeq(beacons, LAMBDA e : Len(beacon_to_matches(s, checked, e)) > 1)

\* entry = (matches_with_beacon[0], reason, matches_with_beacon)
UniquenessItem(s, e, matches_with_beacon) ==
  [primary |-> matches_with_beacon[1],
   reason |-> <<"multiple", e, [i \in 1..Len(matches_with_beacon) |->
                                  s.heap[matches_with_beacon[i]].id]>>,
   related |-> matches_with_beacon]

UniquenessItems(s, checked, beacons) ==
  [i \in 1..Len(beacons) |->
     UniquenessItem(s, beacons[i], beacon_to_matches(s, checked, beacons[i]))]

\* sum(b.amount for b in match.beacon_entries)
BeaconTotal(rec) ==
  SumSeq([i \in 1..Len(rec.beacon_entries) |-> beacon_entries[rec.beacon_entries[i]].amount])

\* a check 2 that does not pass over the proposals without entries
MismatchedOrEmpty(s, checked) ==
  SelectSeq(checked, LAMBDA o : bank_transactions[s.heap[o].bank].amount # BeaconTotal(s.heap[o]))

\* the proposals of checked that check 2 finds in error
Mismatched(s, checked) ==
  SelectSeq(checked, LAMBDA o : /\ s.heap[o].beacon_entries # <<>>
                                /\ bank_transactions[s.heap[o].bank].amount # BeaconTotal(s.heap[o]))

\* entry = (match, reason, [match]) for each proposal of mismatched
AmountItems(s, mismatched) ==
  [i \in 1..Len(mismatched) |->
     [primary |-> mismatched[i],
      reason |-> <<"amount", bank_transactions[s.heap[mismatched[i]].bank].amount,
                   BeaconTotal(s.heap[mismatched[i]])>>,
      related |-> <<mismatched[i]>>]]

\* any(existing[0].id == entry[0].id and existing[1] == reason ...)
AlreadyReported(s, inconsistencies, entry) ==
  \E i \in 1..Len(inconsistencies) :
    /\ s.heap[inconsistencies[i].primary].id = s.heap[entry.primary].id
    /\ inconsistencies[i].reason = entry.reason

\* inconsistencies.append(entry) for each of entries not yet reported
RECURSIVE ReportEach(_, _, _)
ReportEach(s, inconsistencies, entries) ==
  IF entries = <<>> THEN inconsistencies
  ELSE IF AlreadyReported(s, inconsistencies, Head(entries))
  THEN ReportEach(s, inconsistencies, Tail(entries))
  ELSE ReportEach(s, Append(inconsistencies, Head(entries)), Tail(entries))

\* check 1, then check 2, over the proposals of checked
Inconsistencies(s, checked) ==
  ReportEach(s, ReportEach(s, <<>>, UniquenessItems(s, checked,
                                      InSeveral(s, checked, checked_beacons(s, checked)))),
             AmountItems(s, Mismatched(s, checked)))

\* a check_consistency that drops from confirmed_matches the members that
\* are not confirmed
CheckAndClean(s) ==
  [session |-> [s EXCEPT !.confirmed_matches = actually_confirmed(s)],
   inconsistencies |-> Inconsistencies(s, actually_confirmed(s))]

\* check_consistency: the session it leaves and the list it returns
check_consistency(s) ==
  [session |-> s, inconsistencies |-> Inconsistencies(s, actually_confirmed(s))]

\* ------------------------------------------------- the handlers of the GUI
\* the error dialog of a handler whose selected proposal is settled
AlreadySettled(s) == Outcome(s, FALSE, "already_settled", 0)

\* self.suggestions[self.current_index] = match, after a success:
\* self.suggestions is the list match_suggestions of the system
ReplaceSelected(r, current_index) ==
  IF r.success
  THEN [r EXCEPT !.session.match_suggestions[current_index] = r.match]
  ELSE r

\* the bank transaction of the selected proposal
_get_current_bank_transaction(s, current_index) ==
  s.heap[s.match_suggestions[current_index]].bank

\* whether the selected proposal is confirmed, manual_match or
\* manually_resolved
SelectedIsSettled(s, current_index) ==
  s.heap[s.match_suggestions[current_index]].status \in SettledStatuses

_on_create_manual_match(s, current_index, trans_nos) ==
  IF SelectedIsSettled(s, current_index) THEN AlreadySettled(s)
  ELSE ReplaceSelected(create_manual_match(s, _get_current_bank_transaction(s, current_index),
                                           trans_nos),
                       current_index)

_on_mark_resolved(s, current_index, comment) ==
  IF SelectedIsSettled(s, current_index) THEN AlreadySettled(s)
  ELSE ReplaceSelected(create_manually_resolved(s, _get_current_bank_transaction(s, current_index),
                                                comment),
                       current_index)

\* ------------------------------------------------------------- State Store
\* to_dict / from_dict of a MatchSuggestion: the entries are written with
\* their matched flags, raw_data is not written
to_dict(s, rec) ==
  [id |-> rec.id, bank |-> rec.bank, beacon_entries |-> rec.beacon_entries,
   entry_matched |-> [i \in 1..Len(rec.beacon_entries) |->
                        IF rec.loaded THEN rec.copy_matched[i]
                        ELSE s.matched[rec.beacon_entries[i]]],
   confidence_score |-> rec.confidence_score, match_type |-> rec.match_type,
   status |-> rec.status, amount_score |-> rec.amount_score,
   date_score |-> rec.date_score, name_score |-> rec.name_score, comment |-> rec.comment]

from_dict(d) ==
  [id |-> d.id, bank |-> d.bank, beacon_entries |-> d.beacon_entries,
   confidence_score |-> d.confidence_score, match_type |-> d.match_type,
   status |-> d.status, amount_score |-> d.amount_score, date_score |-> d.date_score,
   name_score |-> d.name_score, comment |-> d.comment,
   loaded |-> TRUE, copy_matched |-> d.entry_matched]

\* the content save_state writes
save_state(s) ==
  [matched_beacon_ids |-> s.matched_beacon_ids,
   confirmed_matches |-> [i \in 1..Len(s.confirmed_matches) |->
                            to_dict(s, s.heap[s.confirmed_matches[i]])],
   rejected_bank_ids |-> s.rejected_bank_ids,
   rejected_matches |-> [i \in 1..Len(s.rejected_matches) |->
                           to_dict(s, s.heap[s.rejected_matches[i]])]]

\* the session after __init__ and the reading of the two input files
NewSystem ==
  [heap |-> [o \in Oids |-> NoObj],
   match_suggestions |-> <<>>, confirmed_matches |-> <<>>, rejected_matches |-> <<>>,
   matched_beacon_ids |-> {}, rejected_bank_ids |-> {},
   matched |-> [e \in EntryIds |-> FALSE],
   date_tolerance_days |-> DEFAULT_DATE_TOLERANCE_DAYS]

\* _load_state: the loaded objects take the first heap slots of the new
\* session
_load_state(s, file) ==
  [s EXCEPT
     !.matched_beacon_ids = file.matched_beacon_ids,
     !.heap = [o \in Oids |->
                 IF o <= Len(file.confirmed_matches) THEN from_dict(file.confirmed_matches[o])
                 ELSE IF o <= Len(file.confirmed_matches) + Len(file.rejected_matches)
                 THEN from_dict(file.rejected_matches[o - Len(file.confirmed_matches)])
                 ELSE NoObj],
     !.confirmed_matches = [i \in 1..Len(file.confirmed_matches) |-> i],
     !.rejected_bank_ids = file.rejected_bank_ids,
     !.rejected_matches = [i \in 1..Len(file.rejected_matches) |->
                             Len(file.confirmed_matches) + i],
     !.matched = [e \in DOMAIN s.matched |-> e \in file.matched_beacon_ids]]

\* load_data on a new session with a saved state file
load_data(file) == _load_state(NewSystem, file)

\* ------------------------------------------------------- State Repair Tool
\* fix_reconciliation_state.py and validate_reconciliation_state.py work on
\* the content of the state file: data is a record of the shape save_state
\* writes.  Every entry of a saved proposal has an identifier.
VALID_STATUSES == {CONFIRMED, MANUAL_MATCH, MANUALLY_RESOLVED}

\* (bank id, sorted tuple of the entry ids, status)
get_meaningful_key(match) ==
  <<match.bank,
    StableSort(match.beacon_entries, [i \in 1..Len(match.beacon_entries) |-> <<match.beacon_entries[i]>>]),
    match.status>>

\* step 2 of fix_reconciliation_state: the first occurrence of every key
deduplicated_matches(valid_matches) ==
  LET kept == Ascending({i \in 1..Len(valid_matches) :
                           \A j \in 1..(i - 1) :
                             get_meaningful_key(valid_matches[j]) # get_meaningful_key(valid_matches[i])})
  IN [k \in 1..Len(kept) |-> valid_matches[kept[k]]]

\* a copy that gets the new identifier and leaves the entry flags as they are
RenumberedOnly(match, i) == [match EXCEPT !.id = <<"MATCH", i>>]

\* step 3 of fix_reconciliation_state for the i-th kept proposal
new_match(match, i) ==
  [match EXCEPT !.id = <<"MATCH", i>>,
                !.entry_matched = [k \in 1..Len(match.beacon_entries) |-> TRUE]]

fix_reconciliation_state(data) ==
  LET deduplicated == deduplicated_matches(SelectSeq(data.confirmed_matches,
                                                     LAMBDA match : match.status \in VALID_STATUSES))
  IN [matched_beacon_ids |-> UNION {Range(deduplicated[i].beacon_entries) : i \in 1..Len(deduplicated)},
      confirmed_matches |-> [i \in 1..Len(deduplicated) |-> new_match(deduplicated[i], i)],
      rejected_bank_ids |-> {},
      rejected_matches |-> <<>>]

\* _compare_matches: equal when the id field is left out
_compare_matches(match1, match2) == [match1 EXCEPT !.id = <<>>] = [match2 EXCEPT !.id = <<>>]

\* the identifiers of confirmed_matches and rejected_matches in the order
\* of their first occurrence; one error for each that occurs more than once
_check_duplicate_match_ids(all_matches) ==
  LET ids == FirstOccurrences(<<>>, [i \in 1..Len(all_matches) |-> all_matches[i].id])
      twice == SelectSeq(ids, LAMBDA match_id :
                 Cardinality({i \in 1..Len(all_matches) : all_matches[i].id = match_id}) > 1)
      DuplicateError(match_id, occurrences) ==
        [error_type |-> IF \A k \in 2..Len(occurrences) : _compare_matches(occurrences[1], occurrences[k])
                        THEN "DUPLICATE_ID_IDENTICAL" ELSE "DUPLICATE_ID_DIFFERENT",
         subject |-> match_id]
  IN [k \in 1..Len(twice) |->
        DuplicateError(twice[k], SelectSeq(all_matches, LAMBDA match : match.id = twice[k]))]

_check_orphaned_beacon_ids(data) ==
  LET orphaned == Ascending(data.matched_beacon_ids
                              \ UNION {Range(data.confirmed_matches[i].beacon_entries) :
                                         i \in 1..Len(data.confirmed_matches)})
  IN [k \in 1..Len(orphaned) |-> [error_type |-> "ORPHANED_BEACON_ID", subject |-> orphaned[k]]]

_check_wrong_status_in_confirmed(data) ==
  LET wrong == SelectSeq(data.confirmed_matches, LAMBDA match : match.status \notin VALID_STATUSES)
  IN [k \in 1..Len(wrong) |-> [error_type |-> "WRONG_STATUS", subject |-> wrong[k].id]]

_check_inconsistent_matched_flag(data) ==
  LET FlagErrors(match) ==
        LET places == Ascending({i \in 1..Len(match.beacon_entries) : ~match.entry_matched[i]})
        IN [k \in 1..Len(places) |->
              [error_type |-> "INCONSISTENT_MATCHED_FLAG",
               subject |-> <<match.id, match.beacon_entries[places[k]]>>]]
  IN Concat([i \in 1..Len(data.confirmed_matches) |-> FlagErrors(data.confirmed_matches[i])])

validate(data) ==
  _check_duplicate_match_ids(data.confirmed_matches \o data.rejected_matches)
    \o _check_orphaned_beacon_ids(data)
    \o _check_wrong_status_in_confirmed(data)
    \o _check_inconsistent_matched_flag(data)

\* ---------------------------------------------------------------- the state
VARIABLES
  heap,                \* the MatchSuggestion objects, by identity
  match_suggestions,   \* self.match_suggestions: the working set
  confirmed_matches,   \* self.confirmed_matches
  rejected_matches,    \* self.rejected_matches
  matched_beacon_ids,  \* self.matched_beacon_ids: the claimed set
  rejected_bank_ids,   \* self.rejected_bank_ids
  matched,             \* BeaconEntry.matched of the pool entries
  date_tolerance_days, \* self.date_tolerance_days
  last_call,           \* the last call made: its name, arguments and return value
  steps                \* the number of calls made so far

vars == <<bank_transactions, beacon_entries, heap, match_suggestions, confirmed_matches,
          rejected_matches, matched_beacon_ids, rejected_bank_ids, matched,
          date_tolerance_days, last_call, steps>>

\* the session as one value, and the step that installs a new one
Sys ==
  [heap |-> heap, match_suggestions |-> match_suggestions,
   confirmed_matches |-> confirmed_matches, rejected_matches |-> rejected_matches,
   matched_beacon_ids |-> matched_beacon_ids, rejected_bank_ids |-> rejected_bank_ids,
   matched |-> matched, date_tolerance_days |-> date_tolerance_days]

Becomes(c) ==
  /\ heap' = c.heap
  /\ match_suggestions' = c.match_suggestions
  /\ confirmed_matches' = c.confirmed_matches
  /\ rejected_matches' = c.rejected_matches
  /\ matched_beacon_ids' = c.matched_beacon_ids
  /\ rejected_bank_ids' = c.rejected_bank_ids
  /\ matched' = c.matched
  /\ date_tolerance_days' = c.date_tolerance_days

Install(s) == Becomes(Collect(s))

\* a call and what it returned: success, message and match are the tuple
\* of a manual operation, count is the number run_auto_confirm returns
Call(op, args, success, message, match, count) ==
  [op |-> op, args |-> args, success |-> success, message |-> message,
   match |-> match, count |-> count]

\* a call that returns nothing the callers read
Did(op, args) == Call(op, args, TRUE, "", 0, 0)

NoCall == Did("", <<>>)

\* the inputs the callers draw from
IncludeConfirmedChoices == BOOLEAN
TransNoLimitChoices == {DEFAULT_TRANS_NO_LIMIT}
DateToleranceChoices == {-1}
RequestedStatuses == {PENDING, CONFIRMED, REJECTED, SKIPPED}
NoSuchTransNo == [pre |-> "", num |-> 999]
TransNoChoices == {beacon_entries[e].trans_no : e \in EntryIds} \cup {NoSuchTransNo}
\* the lists of references a caller passes: one reference, or two in
\* ascending order (twice the same one included)
ManualRequests ==
  {<<t>> : t \in TransNoChoices}
    \cup {<<p[1], p[2]>> : p \in {q \in TransNoChoices \X TransNoChoices : q[1].num <= q[2].num}}
\* the proposals a caller holds: the working set and the confirmed collection
Held == Range(match_suggestions) \cup Range(confirmed_matches)

\* one more call of the session
Step ==
  /\ steps < MaxSteps
  /\ steps' = steps + 1
  /\ UNCHANGED <<bank_transactions, beacon_entries>>

DataChoices == 1..Len(DataSets)

Init ==
  /\ \E d \in DataChoices :
       /\ bank_transactions = DataSets[d].bank_transactions
       /\ beacon_entries = DataSets[d].beacon_entries
  /\ heap = [o \in Oids |-> NoObj]
  /\ match_suggestions = <<>>
  /\ confirmed_matches = <<>>
  /\ rejected_matches = <<>>
  /\ matched_beacon_ids = {}
  /\ rejected_bank_ids = {}
  /\ matched = [e \in EntryIds |-> FALSE]
  /\ date_tolerance_days = DEFAULT_DATE_TOLERANCE_DAYS
  /\ last_call = NoCall
  /\ steps = 0

GenerateSuggestions(include_confirmed, trans_no_limit, auto_confirm, tolerance) ==
  /\ Step
  /\ GenerateFits(Sys, include_confirmed, trans_no_limit, tolerance)
  /\ Install(generate_suggestions(Sys, include_confirmed, trans_no_limit, auto_confirm, tolerance))
  /\ last_call' = Did("generate_suggestions", <<include_confirmed, auto_confirm>>)

UpdateMatchStatus(m, new_status) ==
  /\ Step
  /\ m \in Held
  /\ Install(update_match_status(Sys, m, new_status))
  /\ last_call' = Did("update_match_status", <<new_status>>)

\* the direct calls, in the states in which the tests make them
ConfirmMatch(m) ==
  /\ Step
  /\ m \in Range(match_suggestions)
  /\ heap[m].status = PENDING
  /\ Install(confirm_match(Sys, m))
  /\ last_call' = Did("confirm_match", <<>>)

RejectMatch(m) ==
  /\ Step
  /\ m \in Range(match_suggestions)
  /\ heap[m].status = PENDING
  /\ Install(reject_match(Sys, m))
  /\ last_call' = Did("reject_match", <<>>)

SkipMatch(m) ==
  /\ Step
  /\ m \in Range(match_suggestions)
  /\ heap[m].status = PENDING
  /\ Install(skip_match(Sys, m))
  /\ last_call' = Did("skip_match", <<>>)

UndoConfirmation(m) ==
  /\ Step
  /\ m \in Held
  /\ heap[m].status = CONFIRMED
  /\ Install(undo_confirmation(Sys, m))
  /\ last_call' = Did("undo_confirmation", <<>>)

UndoRejection(m) ==
  /\ Step
  /\ m \in Range(match_suggestions)
  /\ heap[m].status = REJECTED
  /\ Install(undo_rejection(Sys, m))
  /\ last_call' = Did("undo_rejection", <<>>)

\* run_auto_confirm returns the count of _auto_confirm_matches
Counted(r) ==
  /\ Install(r[1])
  /\ last_call' = Call("run_auto_confirm", <<>>, TRUE, "", 0, r[2])

RunAutoConfirm ==
  /\ Step
  /\ Counted(_auto_confirm_matches(Sys))

\* a manual operation returns its tuple
Returned(r, op) ==
  /\ Install(r.session)
  /\ last_call' = Call(op, <<>>, r.success, r.message, r.match, 0)

CreateManualMatch(b, trans_nos) ==
  /\ Step
  /\ ManualMatchCheck(Sys, b, trans_nos) = "ok" => FreeSlots(heap) # {}
  /\ Returned(create_manual_match(Sys, b, trans_nos), "create_manual_match")

CreateManuallyResolved(b) ==
  /\ Step
  /\ FreeSlots(heap) # {}
  /\ Returned(create_manually_resolved(Sys, b, "resolved by hand"), "create_manually_resolved")

\* the handlers of the GUI, with the proposal at current_index selected
OnCreateManualMatch(current_index, trans_nos) ==
  /\ Step
  /\ current_index \in 1..Len(match_suggestions)
  /\ FreeSlots(heap) # {}
  /\ Returned(_on_create_manual_match(Sys, current_index, trans_nos),
              "_on_create_manual_match")

OnMarkResolved(current_index) ==
  /\ Step
  /\ current_index \in 1..Len(match_suggestions)
  /\ FreeSlots(heap) # {}
  /\ Returned(_on_mark_resolved(Sys, current_index, "resolved by hand"), "_on_mark_resolved")

\* check_consistency returns its report; the callers read its length
Checked(r) ==
  /\ Install(r.session)
  /\ last_call' = Call("check_consistency", <<>>, TRUE, "", 0, Len(r.inconsistencies))

CheckConsistency ==
  /\ Step
  /\ Checked(check_consistency(Sys))

\* whether the heap has room for the objects of a saved state
FileFits(file) == Len(file.confirmed_matches) + Len(file.rejected_matches) <= MaxObjs

\* save_state(), then a new session on the saved file:
\* ReconciliationSystem() and load_data()
SaveAndReload ==
  /\ Step
  /\ FileFits(save_state(Sys))
  /\ Install(load_data(save_state(Sys)))
  /\ last_call' = Did("load_data", <<>>)

\* the application is closed (on_closing saves the state) and started
\* again: ReconciliationSystem(), load_data(), generate_suggestions()
Restart ==
  /\ Step
  /\ FileFits(save_state(Sys))
  /\ GenerateFits(load_data(save_state(Sys)), FALSE, DEFAULT_TRANS_NO_LIMIT, -1)
  /\ Install(generate_suggestions(load_data(save_state(Sys)), FALSE, DEFAULT_TRANS_NO_LIMIT,
                                  FALSE, -1))
  /\ last_call' = Did("restart", <<>>)

Next ==
  \/ \E ic \in IncludeConfirmedChoices, tl \in TransNoLimitChoices,
        ac \in BOOLEAN, dt \in DateToleranceChoices : GenerateSuggestions(ic, tl, ac, dt)
  \/ \E m \in Oids, st \in RequestedStatuses : UpdateMatchStatus(m, st)
  \/ \E m \in Oids : ConfirmMatch(m)
  \/ \E m \in Oids : RejectMatch(m)
  \/ \E m \in Oids : SkipMatch(m)
  \/ \E m \in Oids : UndoConfirmation(m)
  \/ \E m \in Oids : UndoRejection(m)
  \/ RunAutoConfirm
  \/ \E b \in BankIds, tn \in ManualRequests : CreateManualMatch(b, tn)
  \/ \E b \in BankIds : CreateManuallyResolved(b)
  \/ \E i \in 1..MaxObjs, tn \in ManualRequests : OnCreateManualMatch(i, tn)
  \/ \E i \in 1..MaxObjs : OnMarkResolved(i)
  \/ CheckConsistency
  \/ SaveAndReload
  \/ Restart

Spec == Init /\ [][Next]_vars


\* ------------------------------------ the checker on an edited state file
\* The consistency pass exists for state that an out-of-band edit of the
\* state file has made inconsistent: the session below is the one load_data
\* builds from a state file whose confirmed proposals were edited by hand.

\* a proposal as the state file holds it, the n-th of its list
SavedProposal(n, b, entries, status) ==
  [id |-> <<"MATCH", n>>, bank |-> b, beacon_entries |-> entries,
   entry_matched |-> [i \in 1..Len(entries) |-> TRUE],
   confidence_score |-> ConfOne, match_type |-> "1-to-1", status |-> status,
   amount_score |-> 0, date_score |-> 0, name_score |-> 0, comment |-> ""]

\* no entry, one entry, or two different entries
EntryLists ==
  {<<>>} \cup {<<e>> : e \in EntryIds}
         \cup {<<p[1], p[2]>> : p \in {q \in EntryIds \X EntryIds : q[1] < q[2]}}

\* what an edit can leave of one saved proposal: bank, entries, status
SavedChoices == BankIds \X EntryLists \X MatchStatus

\* the lists of one or two saved proposals
SavedLists ==
  {<<SavedProposal(1, p[1], p[2], p[3])>> : p \in SavedChoices}
    \cup {<<SavedProposal(1, p[1][1], p[1][2], p[1][3]), SavedProposal(2, p[2][1], p[2][2], p[2][3])>> :
            p \in SavedChoices \X SavedChoices}

StateFile(saved) ==
  [matched_beacon_ids |-> UNION {Range(saved[i].beacon_entries) : i \in 1..Len(saved)},
   confirmed_matches |-> saved, rejected_bank_ids |-> {}, rejected_matches |-> <<>>]

\* the session c is the current one
Holds(c) ==
  /\ heap = c.heap
  /\ match_suggestions = c.match_suggestions
  /\ confirmed_matches = c.confirmed_matches
  /\ rejected_matches = c.rejected_matches
  /\ matched_beacon_ids = c.matched_beacon_ids
  /\ rejected_bank_ids = c.rejected_bank_ids
  /\ matched = c.matched
  /\ date_tolerance_days = c.date_tolerance_days

CheckInit ==
  /\ \E d \in DataChoices :
       /\ bank_transactions = DataSets[d].bank_transactions
       /\ beacon_entries = DataSets[d].beacon_entries
  /\ \E saved \in SavedLists : Holds(load_data(StateFile(saved)))
  /\ last_call = NoCall
  /\ steps = 0

CheckSpec == CheckInit /\ [][CheckConsistency]_vars


\* ------------------------------------------- the repair tool on a state file
\* The repair tool and the validator read and write the state file.  The
\* file is held as the session load_data builds from it: save_state of that
\* session is the file again.
CurrentFile == save_state(Sys)

\* a proposal of a damaged file: any identifier, bank, entry list (an entry
\* twice included), status and entry flags
DamagedProposal(n, b, entries, status, flag) ==
  [SavedProposal(n, b, entries, status) EXCEPT
     !.entry_matched = [i \in 1..Len(entries) |-> flag]]

FixEntryLists ==
  {<<>>} \cup {<<e>> : e \in 1..2} \cup {<<p[1], p[2]>> : p \in (1..2) \X (1..2)}

FixStatuses == {CONFIRMED, MANUAL_MATCH, REJECTED}

DamagedChoices == BankIds \X FixEntryLists \X FixStatuses \X BOOLEAN

\* one proposal, or two with the same or with different identifiers
DamagedLists ==
  {<<DamagedProposal(1, p[1], p[2], p[3], p[4])>> : p \in DamagedChoices}
    \cup {<<DamagedProposal(1, p[1][1], p[1][2], p[1][3], p[1][4]),
            DamagedProposal(p[3], p[2][1], p[2][2], p[2][3], p[2][4])>> :
            p \in DamagedChoices \X DamagedChoices \X (1..2)}

\* a damaged file: the claimed set with or without an identifier no
\* proposal has, the rejected list empty or not
DamagedFile(saved, orphans, rejected) ==
  [matched_beacon_ids |-> UNION {Range(saved[i].beacon_entries) : i \in 1..Len(saved)} \cup orphans,
   confirmed_matches |-> saved,
   rejected_bank_ids |-> {rejected[i].bank : i \in 1..Len(rejected)},
   rejected_matches |-> rejected]

FixInit ==
  /\ bank_transactions = DataSets[1].bank_transactions
  /\ beacon_entries = DataSets[1].beacon_entries
  /\ \E saved \in DamagedLists, orphans \in {{}, {3}},
        rejected \in {<<>>, <<DamagedProposal(1, 1, <<1>>, REJECTED, FALSE)>>} :
       Holds(load_data(DamagedFile(saved, orphans, rejected)))
  /\ last_call = NoCall
  /\ steps = 0

\* main of fix_reconciliation_state.py, the fixed file taking the place of
\* the state file; args are the statistics main prints of the original
\* file, count is the number of confirmed_matches of the fixed one
FixReconciliationState ==
  /\ Step
  /\ Becomes(load_data(fix_reconciliation_state(CurrentFile)))
  /\ last_call' = Call("fix_reconciliation_state",
                       <<Len(confirmed_matches), Len(rejected_matches),
                         Cardinality(matched_beacon_ids), Cardinality(rejected_bank_ids)>>,
                       TRUE, "", 0, Len(fix_reconciliation_state(CurrentFile).confirmed_matches))

\* ReconciliationStateValidator.validate on the state file
Validate ==
  /\ Step
  /\ UNCHANGED <<heap, match_suggestions, confirmed_matches, rejected_matches,
                 matched_beacon_ids, rejected_bank_ids, matched, date_tolerance_days>>
  /\ last_call' = Call("validate", <<>>, TRUE, "", validate(CurrentFile), Len(validate(CurrentFile)))

FixSpec == FixInit /\ [][FixReconciliationState \/ Validate]_vars


\* ------------------------------------------------ the two candidate searches
\* The row values the searches are run on: one bank transaction of day 10
\* and two unclaimed ledger entries.
ScoreBankAmounts == {1300, 2600, 3300, 4000}
ScoreEntryAmounts == {1300, 650, 950, 350, 2000}
ScoreNames == {<<>>, <<SMITH>>, <<JONES>>}
ScoreDates == {11, 13, 30}
ScoreBanks == {Bank(a, 10, n, <<>>) : a \in ScoreBankAmounts, n \in {<<>>, <<JONES>>}}
ScoreEntries(num) ==
  {Beacon(a, d, num, n, "") : a \in ScoreEntryAmounts, d \in ScoreDates, n \in ScoreNames}

ScoreInit ==
  /\ \E bank \in ScoreBanks, e1 \in ScoreEntries(101), e2 \in ScoreEntries(102) \cup ScoreEntries(110) :
       /\ bank_transactions = <<bank>>
       /\ beacon_entries = <<e1, e2>>
  /\ Holds(NewSystem)
  /\ last_call = NoCall
  /\ steps = 0

\* the two searches generate_suggestions runs for a bank transaction, on
\* the index of the unclaimed entries: match is one_to_one + one_to_two
FindMatches(b) ==
  /\ Step
  /\ UNCHANGED <<heap, match_suggestions, confirmed_matches, rejected_matches,
                 matched_beacon_ids, rejected_bank_ids, matched, date_tolerance_days>>
  /\ last_call' = Call("find_matches", <<b>>, TRUE, "",
                       _find_one_to_one_matches_fast(b, AvailableBeacon(Sys), date_tolerance_days)
                         \o _find_one_to_two_matches_fast(b, AvailableBeacon(Sys),
                                                          date_tolerance_days,
                                                          DEFAULT_TRANS_NO_LIMIT),
                       0)

ScoreSpec == ScoreInit /\ [][\E b \in BankIds : FindMatches(b)]_vars
\* ------------------------------------------------------------ properties
\* the proposals the session holds that are settled
Settled(o) == heap[o].status \in SettledStatuses
SettledProposals == {o \in Held : Settled(o)}

\* the settled proposals for bank transaction b among the objects held
SettledFor(h, held, b) == {o \in held : h[o].status \in SettledStatuses /\ h[o].bank = b}

SharesEntry(r1, r2) == BeaconIdsOf(r1) \cap BeaconIdsOf(r2) # {}

EntryTotal(rec) ==
  SumSeq([i \in 1..Len(rec.beacon_entries) |-> beacon_entries[rec.beacon_entries[i]].amount])

\* C1 (Exclusivity): any two distinct settled proposals (confirmed,
\* manual_match or manually_resolved) reference disjoint sets of ledger
\* entries.
C1_Exclusivity ==
  \A m1 \in SettledProposals, m2 \in SettledProposals :
    m1 # m2 => ~SharesEntry(heap[m1], heap[m2])

\* C2: every bank transaction has at most one settled proposal.
C2_OneSettledPerBank ==
  \A b \in BankIds : Cardinality(SettledFor(heap, Held, b)) <= 1

\* C3 (Claim-set equivalence): matched_beacon_ids is exactly the union of
\* the ledger-entry identifiers of the settled proposals.
C3_ClaimSetEquivalence ==
  matched_beacon_ids = UNION {BeaconIdsOf(heap[m]) : m \in SettledProposals}

\* C4 (Amount conservation): every settled proposal with a non-empty entry
\* list has a bank amount equal to the sum of its entries' amounts.
C4_AmountConservation ==
  \A m \in SettledProposals :
    heap[m].beacon_entries # <<>>
      => bank_transactions[heap[m].bank].amount = EntryTotal(heap[m])

\* a settled generated pair and a settled manual match are held
C4_Witness ==
  /\ \E m \in SettledProposals : heap[m].status = CONFIRMED /\ Len(heap[m].beacon_entries) = 2
  /\ \E m \in SettledProposals : heap[m].status = MANUAL_MATCH

\* the step confirms proposal A: a direct call, a status update to
\* confirmed, or the auto-confirmer
ConfirmingCall(A) ==
  \/ ConfirmMatch(A)
  \/ heap[A].status # CONFIRMED /\ UpdateMatchStatus(A, CONFIRMED)
  \/ heap[A].status = PENDING /\ heap'[A].status = CONFIRMED /\ RunAutoConfirm

\* C5 (Cascade correctness): when a proposal A is confirmed, every other
\* proposal B of the working set that was pending and references one of
\* A's ledger entries is rejected afterwards, and B's bank transaction is
\* in rejected_bank_ids afterwards.
C5_CascadeCorrectness ==
  [][\A A \in Oids :
       ConfirmingCall(A)
         => \A B \in Range(match_suggestions) \ {A} :
              heap[B].status = PENDING /\ SharesEntry(heap[A], heap[B])
                => heap'[B].status = REJECTED /\ heap'[B].bank \in rejected_bank_ids']_vars

\* a confirming call has rejected a proposal of another bank transaction
\* that shares an entry with the proposal confirmed
C5_Witness ==
  /\ last_call.op \in {"confirm_match", "update_match_status", "run_auto_confirm"}
  /\ \E A \in Range(match_suggestions), B \in Range(match_suggestions) :
       /\ heap[A].status = CONFIRMED /\ heap[B].status = REJECTED
       /\ heap[A].bank # heap[B].bank
       /\ SharesEntry(heap[A], heap[B])
       /\ heap[B].bank \in rejected_bank_ids

\* the settled proposal m is back to pending in session after, out of the
\* confirmed collection and with none of its entries claimed
Reverted(after, m) ==
  /\ after.heap[m].status = PENDING
  /\ m \notin Range(after.confirmed_matches)
  /\ BeaconIdsOf(after.heap[m]) \cap after.matched_beacon_ids = {}

\* the claimed set and the confirmed collection of session after are those
\* of the current session
Restored(after) ==
  /\ after.matched_beacon_ids = matched_beacon_ids
  /\ after.confirmed_matches = confirmed_matches

\* C6 (Undo reversibility): taking a settled proposal back to pending
\* leaves it pending, out of confirmed_matches and with none of its entries
\* in matched_beacon_ids; and confirm followed by undo restores the claimed
\* set and the confirmed collection to their values before the confirm.
C6_UndoReversibility ==
  /\ \A m \in SettledProposals : Reverted(update_match_status(Sys, m, PENDING), m)
  /\ \A m \in Range(match_suggestions) :
       heap[m].status = PENDING => Restored(undo_confirmation(confirm_match(Sys, m), m))

\* the step is the call generate_suggestions(include_confirmed=ic,
\* auto_confirm=ac)
Regenerated(ic, ac) ==
  steps' = steps + 1 /\ last_call' = Did("generate_suggestions", <<ic, ac>>)

\* the step is the start of a new session on the saved state
Restarted == steps' = steps + 1 /\ last_call' = Did("restart", <<>>)

\* C7 (Regeneration idempotence): after generate_suggestions (any
\* include_confirmed, any auto_confirm) a bank transaction that had one
\* settled proposal before the call has exactly one, and with
\* include_confirmed=True that proposal is in the working set as the same
\* object.
C7_RegenerationIdempotence ==
  [][\A ic \in IncludeConfirmedChoices, ac \in BOOLEAN :
       Regenerated(ic, ac)
         => \A b \in BankIds :
              Cardinality(SettledFor(heap, Held, b)) = 1
                => /\ Cardinality(SettledFor(heap', Held', b)) = 1
                   /\ ic => SettledFor(heap, Held, b) \subseteq Range(match_suggestions')]_vars

\* generate_suggestions(include_confirmed=False), the other arguments at
\* their defaults (auto_confirm=False), in the running session or at the
\* start of a new one on the saved state
DefaultRegeneration == Regenerated(FALSE, FALSE) \/ Restarted

\* C8: after proposals were confirmed and generate_suggestions
\* (include_confirmed=False) was called, no proposal of the regenerated
\* working set references a ledger entry of matched_beacon_ids.
C8_RegeneratedAvoidClaimed ==
  [][DefaultRegeneration
       => \A o \in Range(match_suggestions') :
            BeaconIdsOf(heap'[o]) \cap matched_beacon_ids' = {}]_vars

\* a proposal with entries is confirmed, and the regenerated working set
\* proposes entries
C8_Witness ==
  /\ last_call.op = "generate_suggestions" /\ last_call.args = <<FALSE, FALSE>>
  /\ \E c \in Range(confirmed_matches) :
       heap[c].status = CONFIRMED /\ heap[c].beacon_entries # <<>>
  /\ \E o \in Range(match_suggestions) : heap[o].beacon_entries # <<>>

\* generate_suggestions with auto_confirm=False, in the running session or
\* at the start of a new one on the saved state
RegenerationWithoutAutoConfirm ==
  (\E ic \in IncludeConfirmedChoices : Regenerated(ic, FALSE)) \/ Restarted

\* C9 (Rejection persists across regeneration): after generate_suggestions
\* with auto_confirm=False, also after a save and load of the state, every
\* freshly generated proposal for a bank transaction of rejected_bank_ids
\* is rejected and every other freshly generated proposal is pending.
C9_RejectionPersists ==
  [][RegenerationWithoutAutoConfirm
       => \A o \in Range(match_suggestions') \ Range(confirmed_matches') :
            heap'[o].status = IF heap'[o].bank \in rejected_bank_ids THEN REJECTED
                              ELSE PENDING]_vars

\* a new session on a saved state with a rejected proposal has generated a
\* rejected proposal for the rejected bank transaction and a pending one
\* for another
C9_Witness ==
  /\ last_call.op = "restart"
  /\ \E r \in Range(rejected_matches) : heap[r].loaded
  /\ \E o \in Range(match_suggestions) :
       heap[o].status = REJECTED /\ heap[o].bank \in rejected_bank_ids
  /\ \E o \in Range(match_suggestions) :
       heap[o].status = PENDING /\ heap[o].bank \notin rejected_bank_ids

\* the step is a call of create_manual_match that reports a failure
FailingManualMatch ==
  steps' = steps + 1 /\ last_call'.op = "create_manual_match" /\ ~last_call'.success

\* C10: a failing create_manual_match returns (False, reason, None) and
\* leaves matched_beacon_ids, confirmed_matches, rejected_bank_ids, the
\* working set and every entry's matched flag as they were.
C10_FailedManualMatchChangesNothing ==
  [][FailingManualMatch
       => /\ last_call'.message \in {"not_found", "already_matched", "amount_mismatch"}
          /\ last_call'.match = 0
          /\ UNCHANGED <<matched_beacon_ids, confirmed_matches, rejected_bank_ids,
                         match_suggestions, matched, heap>>]_vars

\* an amount mismatch was reported in a session that holds claims
C10_Witness ==
  /\ last_call.op = "create_manual_match"
  /\ ~last_call.success /\ last_call.message = "amount_mismatch"
  /\ matched_beacon_ids # {} /\ confirmed_matches # <<>> /\ match_suggestions # <<>>


\* the outcome r of create_manual_match for bank transaction b, found being
\* the entries its references resolve to (0: none): the condition reported
ReportsAsSpecified(r, b, found) ==
  /\ (\E i \in 1..Len(found) : found[i] = 0)
       => ~r.success /\ r.message = "not_found"
  /\ (\A i \in 1..Len(found) : found[i] # 0)
       /\ (\E i \in 1..Len(found) : found[i] \in matched_beacon_ids)
       => ~r.success /\ r.message = "already_matched"
  /\ (\A i \in 1..Len(found) : found[i] # 0 /\ found[i] \notin matched_beacon_ids)
       /\ bank_transactions[b].amount
            # SumSeq([i \in 1..Len(found) |-> beacon_entries[found[i]].amount])
       => ~r.success /\ r.message = "amount_mismatch"
  /\ r.success
       => /\ \A i \in 1..Len(found) : found[i] # 0 /\ found[i] \notin matched_beacon_ids
          /\ bank_transactions[b].amount
               = SumSeq([i \in 1..Len(found) |-> beacon_entries[found[i]].amount])

\* C11: create_manual_match fails with the not-found condition whenever a
\* reference resolves to no ledger entry, whatever the state of the other
\* references; with the already-claimed condition whenever a resolved entry
\* is in matched_beacon_ids; with the amount-mismatch condition whenever
\* the sum of the resolved entries differs from the bank amount; and it
\* succeeds only when none of the three holds.
C11_ManualMatchFailureConditions ==
  \A b \in BankIds, tn \in ManualRequests :
    FreeSlots(heap) # {}
      => ReportsAsSpecified(create_manual_match(Sys, b, tn), b, FoundEntries(tn))

\* the step is a call of create_manual_match that succeeds
SuccessfulManualMatch ==
  steps' = steps + 1 /\ last_call'.op = "create_manual_match" /\ last_call'.success

\* C12: after a successful create_manual_match every other pending
\* proposal of the working set that references one of the newly claimed
\* ledger entries, and every other pending proposal for the same bank
\* transaction, is rejected.
C12_ManualMatchCascades ==
  [][SuccessfulManualMatch
       => \A B \in Range(match_suggestions) :
            /\ heap[B].status = PENDING
            /\ \/ SharesEntry(heap[B], heap'[last_call'.match])
               \/ heap[B].bank = heap'[last_call'.match].bank
            => heap'[B].status = REJECTED]_vars

\* a step in which one of the GUI's manual operations reported success
ManualOperationAccepted ==
  /\ steps' = steps + 1
  /\ last_call'.op \in {"_on_create_manual_match", "_on_mark_resolved"}
  /\ last_call'.success

\* C13: a manual match or manual resolution requested through the GUI for a
\* bank transaction that already has a settled proposal (confirmed,
\* manual_match or manually_resolved) anywhere in the session is rejected,
\* whichever of that bank transaction's proposals is selected: an accepted
\* request is for a bank transaction that had no settled proposal.
C13_ManualOperationOnSettledBankRejected ==
  [][ManualOperationAccepted
       => SettledFor(heap, Held, heap'[last_call'.match].bank) = {}]_vars

\* a step that is a call of run_auto_confirm
AutoConfirmRun == steps' = steps + 1 /\ last_call'.op = "run_auto_confirm"

\* the threshold that applies to the proposal rec: 0.90 when the amount of
\* its bank transaction is a common amount, 0.80 otherwise
ApplicableThreshold(rec) ==
  IF bank_transactions[rec.bank].amount \in COMMON_AMOUNTS THEN 90000000 ELSE 80000000

\* the proposals the step changes to confirmed
MadeConfirmed == {o \in Oids : heap[o].status # CONFIRMED /\ heap'[o].status = CONFIRMED}

\* the session with the confidence of proposal o exactly at its threshold
AtThreshold(o) ==
  [Sys EXCEPT !.heap[o].confidence_score = ApplicableThreshold(heap[o])]

\* C14: run_auto_confirm changes to confirmed only proposals that were
\* pending, have at least one ledger entry and a confidence strictly greater
\* than the applicable threshold; the integer it returns is the number of
\* proposals it moved from pending to confirmed; and a pending proposal whose
\* confidence is exactly the threshold is not promoted by the call.
C14_AutoConfirmPromotesOnlyAbove ==
  [][AutoConfirmRun
       => /\ \A o \in MadeConfirmed :
               /\ heap[o].status = PENDING
               /\ heap[o].beacon_entries # <<>>
               /\ heap[o].confidence_score > ApplicableThreshold(heap[o])
          /\ last_call'.count = Cardinality(MadeConfirmed)
          /\ \A o \in Range(match_suggestions) :
               heap[o].status = PENDING
                 => _auto_confirm_matches(AtThreshold(o))[1].heap[o].status # CONFIRMED]_vars

\* run_auto_confirm has promoted a proposal and left pending one that has
\* ledger entries and a confidence below its threshold
C14_Witness ==
  /\ last_call.op = "run_auto_confirm"
  /\ last_call.count >= 1
  /\ \E o \in Range(match_suggestions) :
       /\ heap[o].status = PENDING
       /\ heap[o].beacon_entries # <<>>
       /\ heap[o].confidence_score < ApplicableThreshold(heap[o])

\* whether run_auto_confirm, by the statement of its contract, promotes rec
Promotable(rec) ==
  /\ rec.status = PENDING
  /\ rec.beacon_entries # <<>>
  /\ rec.confidence_score > ApplicableThreshold(rec)

\* C15: after run_auto_confirm returns, every proposal that was pending, had
\* at least one ledger entry and had a confidence strictly exceeding its
\* applicable threshold when the call started is confirmed.
C15_AutoConfirmPromotesEveryAbove ==
  [][AutoConfirmRun
       => \A o \in Range(match_suggestions) :
            Promotable(heap[o]) => heap'[o].status = CONFIRMED]_vars

\* proposal o has been rejected by the cascade of a proposal the step
\* confirmed: it shares its bank transaction or a ledger entry with it
RejectedByPromotion(o) ==
  /\ heap'[o].status = REJECTED
  /\ \E p \in MadeConfirmed \ {o} :
       heap[p].bank = heap[o].bank \/ SharesEntry(heap[p], heap[o])

\* C15 (amended): after run_auto_confirm returns, every proposal that was
\* pending, had at least one ledger entry and had a confidence strictly
\* exceeding its applicable threshold when the call started is confirmed, or
\* is rejected by the cascade of another proposal the call confirmed, with
\* which it shares its bank transaction or a ledger entry.
C15_AutoConfirmPromotesOrCascades ==
  [][AutoConfirmRun
       => \A o \in Range(match_suggestions) :
            Promotable(heap[o]) => heap'[o].status = CONFIRMED \/ RejectedByPromotion(o)]_vars

\* run_auto_confirm, called on the proposals just generated, has promoted a
\* proposal and rejected another one that is above its threshold
C15_Witness ==
  /\ steps = 2
  /\ last_call.op = "run_auto_confirm"
  /\ last_call.count >= 1
  /\ \E o \in Range(match_suggestions) :
       /\ heap[o].status = REJECTED
       /\ heap[o].beacon_entries # <<>>
       /\ heap[o].confidence_score > ApplicableThreshold(heap[o])

\* the report a call of check_consistency returns in the current state
Report == check_consistency(Sys).inconsistencies

\* the members of confirmed_matches with status confirmed that reference
\* ledger entry e
Referencing(e) ==
  {o \in Range(confirmed_matches) : heap[o].status = CONFIRMED /\ e \in BeaconIdsOf(heap[o])}

\* the places of the items of the report rep that are uniqueness items for e
UniquenessItemsFor(rep, e) ==
  {i \in 1..Len(rep) : rep[i].reason[1] = "multiple" /\ rep[i].reason[2] = e}

\* what the uniqueness check owes for entry e, referenced by the proposals refs
UniquenessReported(rep, e, refs) ==
  IF Cardinality(refs) >= 2
  THEN /\ Cardinality(UniquenessItemsFor(rep, e)) = 1
       /\ \A i \in UniquenessItemsFor(rep, e) :
            /\ Range(rep[i].related) = refs
            /\ Len(rep[i].related) >= 2
            /\ rep[i].primary \in refs
  ELSE UniquenessItemsFor(rep, e) = {}

\* C16: for each ledger entry referenced by two or more proposals of
\* confirmed_matches whose status is confirmed, the report of
\* check_consistency contains exactly one uniqueness item for that entry,
\* whose related list holds all the proposals referencing it (at least 2) and
\* whose primary proposal is one of them; an entry referenced by fewer than
\* two confirmed proposals gets no uniqueness item.
C16_UniquenessReport ==
  \A e \in EntryIds : UniquenessReported(Report, e, Referencing(e))

\* the places of the items of the report rep that are amount-mismatch items
\* naming proposal o
AmountItemsFor(rep, o) ==
  {i \in 1..Len(rep) : /\ rep[i].reason[1] = "amount"
                       /\ (rep[i].primary = o \/ o \in Range(rep[i].related))}

\* whether the amount check owes an item for the member o of confirmed_matches
AmountMismatch(rec) ==
  /\ rec.status = CONFIRMED
  /\ rec.beacon_entries # <<>>
  /\ bank_transactions[rec.bank].amount # EntryTotal(rec)

NamedIn(rep) ==
  UNION {{rep[i].primary} \cup Range(rep[i].related) : i \in 1..Len(rep)}

\* the session without the members of confirmed_matches that are not
\* confirmed
WithoutOthers ==
  [Sys EXCEPT !.confirmed_matches = SelectSeq(@, LAMBDA o : heap[o].status = CONFIRMED)]

\* C18: check_consistency considers only the members of confirmed_matches
\* whose status is exactly confirmed: a member that is pending, rejected,
\* skipped, manual_match or manually_resolved is neither the primary nor a
\* related proposal of any item, and the report is the one the call returns
\* when those members are not in the collection at all.
C18_OnlyConfirmedConsidered ==
  /\ \A o \in NamedIn(Report) : heap[o].status = CONFIRMED
  /\ Report = check_consistency(WithoutOthers).inconsistencies

\* check_consistency has run on a session where a member of
\* confirmed_matches that is not confirmed shares an entry with a confirmed
\* member, and another has entries that do not sum to its bank amount
C18_Witness ==
  /\ last_call.op = "check_consistency"
  /\ \E o \in Range(confirmed_matches), p \in Range(confirmed_matches) :
       /\ heap[o].status # CONFIRMED
       /\ heap[p].status = CONFIRMED
       /\ SharesEntry(heap[o], heap[p])
  /\ \E o \in Range(confirmed_matches) :
       /\ heap[o].status # CONFIRMED
       /\ heap[o].beacon_entries # <<>>
       /\ bank_transactions[heap[o].bank].amount # EntryTotal(heap[o])

\* a step that is a call of check_consistency
ConsistencyChecked == steps' = steps + 1 /\ last_call'.op = "check_consistency"

\* C19: check_consistency corrects nothing: a call leaves every proposal's
\* status and entry list, confirmed_matches, matched_beacon_ids,
\* rejected_bank_ids, rejected_matches and the working set unchanged,
\* whether or not it finds violations.
C19_CheckChangesNothing ==
  [][ConsistencyChecked
       => /\ \A o \in Oids : /\ heap'[o].status = heap[o].status
                             /\ heap'[o].beacon_entries = heap[o].beacon_entries
          /\ confirmed_matches' = confirmed_matches
          /\ matched_beacon_ids' = matched_beacon_ids
          /\ rejected_bank_ids' = rejected_bank_ids
          /\ rejected_matches' = rejected_matches
          /\ match_suggestions' = match_suggestions]_vars

\* check_consistency has found a violation and returned a report with an
\* item for it
C19_Witness ==
  /\ last_call.op = "check_consistency"
  /\ last_call.count >= 1
  /\ Len(Report) = last_call.count

\* C20: the claimed flag mirrors the claimed set: after every operation, for
\* every ledger entry of the session's entry pool, entry.matched is true if
\* and only if the identifier of the entry is in matched_beacon_ids, also
\* when the proposal undone was loaded from persisted state.
C20_FlagMirrorsClaimSet ==
  \A e \in EntryIds : matched[e] <=> e \in matched_beacon_ids

\* a step in which generate_suggestions has run and returned the working set
GenerationStep ==
  /\ steps' = steps + 1
  /\ last_call'.op \in {"generate_suggestions", "restart"}

\* C21: every proposal with a non-empty entry list that generate_suggestions
\* produces (1-to-1, 1-to-2 and member-number based) has a bank amount
\* exactly equal to the sum of its entries' amounts.
C21_GeneratedAmountsAddUp ==
  [][GenerationStep
       => \A o \in Range(match_suggestions') :
            heap'[o].beacon_entries # <<>>
              => bank_transactions[heap'[o].bank].amount = EntryTotal(heap'[o])]_vars

\* generate_suggestions has returned a 1-to-1 and a 1-to-2 proposal while
\* the pool holds an entry of another amount than the 1-to-1 proposal's
C21_Witness ==
  /\ last_call.op = "generate_suggestions"
  /\ \E o \in Range(match_suggestions) : heap[o].match_type = "1-to-2"
  /\ \E o \in Range(match_suggestions) :
       /\ heap[o].match_type = "1-to-1"
       /\ \E e \in EntryIds : beacon_entries[e].amount # bank_transactions[heap[o].bank].amount

\* whether ledger entry e is within the date tolerance of bank transaction b:
\* at most tolerance days after the bank date and at most 2 days before it
WithinDateTolerance(b, e, tolerance) ==
  /\ beacon_entries[e].date - bank_transactions[b].date <= tolerance
  /\ bank_transactions[b].date - beacon_entries[e].date <= 2

\* C22: every proposal returned by generate_suggestions references only
\* ledger entries within the date tolerance of its bank transaction: no entry
\* is dated more than date_tolerance_days (default 7) after the bank date or
\* more than 2 days before it, in a 1-to-2 proposal both entries.
C22_GeneratedWithinDateTolerance ==
  [][GenerationStep
       => \A o \in Range(match_suggestions') :
            \A e \in BeaconIdsOf(heap'[o]) :
              WithinDateTolerance(heap'[o].bank, e, date_tolerance_days')]_vars

\* what a caller reads of a proposal: identifier, bank transaction, entries,
\* kind, scores and status
Visible(rec) ==
  [id |-> rec.id, bank |-> rec.bank, beacon_entries |-> rec.beacon_entries,
   match_type |-> rec.match_type, status |-> rec.status,
   confidence_score |-> rec.confidence_score, amount_score |-> rec.amount_score,
   date_score |-> rec.date_score, name_score |-> rec.name_score]

\* the proposal list of session s, in order
ProposalList(s) == [i \in 1..Len(s.match_suggestions) |-> Visible(s.heap[s.match_suggestions[i]])]

\* a session that has of the current one only the claimed set, the rejected
\* set, the date tolerance and the confirmed collection: no working set, no
\* rejected proposals, no flags, and no other object
SameInputs ==
  [NewSystem EXCEPT
     !.matched_beacon_ids = matched_beacon_ids,
     !.rejected_bank_ids = rejected_bank_ids,
     !.date_tolerance_days = date_tolerance_days,
     !.confirmed_matches = [i \in 1..Len(confirmed_matches) |-> i],
     !.heap = [o \in Oids |-> IF o <= Len(confirmed_matches) THEN heap[confirmed_matches[o]]
                              ELSE NoObj]]

\* the list the call made in the step returned is the list the same call
\* returns in session s
SameProposals(s, ic, ac) ==
  GenerateFits(s, ic, DEFAULT_TRANS_NO_LIMIT, -1)
    => ProposalList(Sys') = ProposalList(generate_suggestions(s, ic, DEFAULT_TRANS_NO_LIMIT, ac, -1))

\* C23: generate_suggestions is determined by its arguments, the bank
\* transactions, the ledger entries, the claimed set, the rejected set and
\* the confirmed collection: the call made in the current session and the
\* same call in a session that shares only those with it return the same
\* proposals, with the same identifiers, order, scores and statuses.
C23_GenerationDeterminism ==
  [][steps' = steps + 1 /\ last_call'.op = "generate_suggestions"
       => SameProposals(SameInputs, last_call'.args[1], last_call'.args[2])]_vars

\* a session that differs from the one sharing its inputs: it has a working
\* set, rejected proposals and a confirmed collection, and generation in it
\* returns proposals
C23_Witness ==
  /\ match_suggestions # <<>>
  /\ rejected_matches # <<>>
  /\ confirmed_matches # <<>>
  /\ \E e \in EntryIds : matched[e]
  /\ GenerateFits(Sys, FALSE, DEFAULT_TRANS_NO_LIMIT, -1)
  /\ generate_suggestions(Sys, FALSE, DEFAULT_TRANS_NO_LIMIT, FALSE, -1).match_suggestions # <<>>

\* in session after, proposal m has status new_status, and when it was
\* confirmed before and is not any more, none of its entries is claimed
LeavesStatus(after, m, new_status) ==
  /\ after.heap[m].status = new_status
  /\ heap[m].status = CONFIRMED /\ new_status # CONFIRMED
       => BeaconIdsOf(heap[m]) \cap after.matched_beacon_ids = {}

\* C24: update_match_status(m, s) with s pending, confirmed, rejected or
\* skipped leaves m.status equal to s whatever the status of m was
\* (rejected to confirmed and confirmed to skipped included), and when m
\* leaves confirmed its ledger entries are no longer in matched_beacon_ids.
C24_UpdateReachesRequestedStatus ==
  [][\A new_status \in RequestedStatuses :
       steps' = steps + 1 /\ last_call' = Did("update_match_status", <<new_status>>)
         => \A m \in Held :
              UpdateMatchStatus(m, new_status)
                => LeavesStatus(update_match_status(Sys, m, new_status), m, new_status)]_vars

\* a status update has taken a confirmed proposal to skipped: the proposal
\* its confirmation rejected is still rejected, its entries are free
C24_Witness ==
  /\ last_call = Did("update_match_status", <<SKIPPED>>)
  /\ \E m \in Range(match_suggestions), B \in Range(match_suggestions) :
       /\ heap[m].status = SKIPPED /\ heap[B].status = REJECTED
       /\ heap[m].beacon_entries # <<>>
       /\ SharesEntry(heap[m], heap[B])
       /\ BeaconIdsOf(heap[m]) \cap matched_beacon_ids = {}

\* the step is a run of the repair tool
Repaired == steps' = steps + 1 /\ last_call'.op = "fix_reconciliation_state"

\* a saved proposal without its identifier and its entry flags
Stripped(match) == [match EXCEPT !.id = <<>>, !.entry_matched = <<>>]

\* the proposals of kept are proposals of given, in the order of given
InInputOrder(kept, given) ==
  \E f \in [1..Len(kept) -> 1..Len(given)] :
    /\ \A k \in 1..Len(kept) : Stripped(kept[k]) = Stripped(given[f[k]])
    /\ \A k \in 1..(Len(kept) - 1) : f[k] < f[k + 1]

\* two saved proposals with the same bank id, set of entry ids and status
SameKeyAsSets(match1, match2) ==
  /\ match1.bank = match2.bank
  /\ Range(match1.beacon_entries) = Range(match2.beacon_entries)
  /\ match1.status = match2.status

\* what the repair tool promises of the file fixed it makes of the file given
RepairedAsSpecified(given, fixed) ==
  /\ \A i \in 1..Len(fixed.confirmed_matches) :
       /\ fixed.confirmed_matches[i].status \in {CONFIRMED, MANUAL_MATCH, MANUALLY_RESOLVED}
       /\ fixed.confirmed_matches[i].id = <<"MATCH", i>>
       /\ \A k \in 1..Len(fixed.confirmed_matches[i].entry_matched) :
            fixed.confirmed_matches[i].entry_matched[k]
       /\ \A j \in 1..(i - 1) :
            ~SameKeyAsSets(fixed.confirmed_matches[j], fixed.confirmed_matches[i])
  /\ InInputOrder(fixed.confirmed_matches, given.confirmed_matches)
  /\ fixed.matched_beacon_ids
       = UNION {Range(fixed.confirmed_matches[i].beacon_entries) : i \in 1..Len(fixed.confirmed_matches)}
  /\ fixed.rejected_bank_ids = {}
  /\ fixed.rejected_matches = <<>>

\* C25: for any input state, fix_reconciliation_state returns
\* confirmed_matches with only the statuses confirmed, manual_match and
\* manually_resolved, no two with the same (bank id, set of entry ids,
\* status), in input order with the identifiers MATCH_0001..MATCH_n, every
\* entry flag true, matched_beacon_ids the union of the entry ids of the
\* kept matches, and empty rejected_bank_ids and rejected_matches.
C25_RepairedState ==
  [][Repaired => RepairedAsSpecified(CurrentFile, CurrentFile')]_vars

\* C26: for any input state, the output of fix_reconciliation_state passes
\* the validator: ReconciliationStateValidator.validate reports on it no
\* duplicate match id, no orphaned beacon id, no wrong status and no
\* inconsistent matched flag.
C26_RepairedStateValidates ==
  [][Repaired => validate(CurrentFile') = <<>>]_vars

\* the repair tool has run on a file that had two confirmed records, a
\* rejected one and an orphaned identifier, one record listing entries with
\* the flag unset; it kept one record and the validator accepts the result
C26_Witness ==
  /\ last_call.op = "fix_reconciliation_state"
  /\ last_call.args[1] = 2 /\ last_call.args[2] = 1
  /\ last_call.args[3] > Cardinality(matched_beacon_ids)
  /\ last_call.count = 1
  /\ heap[1].beacon_entries # <<>>
  /\ validate(CurrentFile) = <<>>

\* the pending proposals of the working set
PendingProposals == {o \in Range(match_suggestions) : heap[o].status = PENDING}

\* C27: after every completed transition no pending proposal is a live
\* candidate against settled state: no pending proposal references a ledger
\* entry whose identifier is in matched_beacon_ids, and no pending proposal
\* belongs to a bank transaction that has a settled proposal.
C27_NoPendingAgainstSettled ==
  \A o \in PendingProposals :
    /\ BeaconIdsOf(heap[o]) \cap matched_beacon_ids = {}
    /\ SettledFor(heap, Held, heap[o].bank) = {}

\* the claimed set and the confirmed collection are as before the step
ConfirmedUntouched ==
  /\ matched_beacon_ids' = matched_beacon_ids
  /\ confirmed_matches' = confirmed_matches
  /\ \A o \in Range(confirmed_matches) : heap'[o] = heap[o]

\* C28: reject_match leaves the proposal rejected with its bank id in
\* rejected_bank_ids; undo_rejection leaves the proposal pending, its bank
\* id out of rejected_bank_ids and the proposal out of rejected_matches;
\* neither changes matched_beacon_ids or confirmed_matches.
C28_RejectAndUndoRejection ==
  [][\A m \in Range(match_suggestions) :
       /\ steps' = steps + 1 /\ last_call'.op = "reject_match" /\ RejectMatch(m)
            => /\ heap'[m].status = REJECTED
               /\ heap'[m].bank \in rejected_bank_ids'
               /\ ConfirmedUntouched
       /\ steps' = steps + 1 /\ last_call'.op = "undo_rejection" /\ UndoRejection(m)
            => /\ heap'[m].status = PENDING
               /\ heap'[m].bank \notin rejected_bank_ids'
               /\ ~InList(heap', rejected_matches', m)
               /\ ConfirmedUntouched]_vars

\* a rejection has been undone in a session that has a confirmed proposal
\* and another rejected one
C28_Witness ==
  /\ last_call.op = "undo_rejection"
  /\ PendingProposals # {}
  /\ confirmed_matches # <<>> /\ matched_beacon_ids # {}
  /\ rejected_matches # <<>>

\* in session after, every proposal but A is as it is now, and the
\* rejected proposals that share an entry or the bank transaction with A
\* are still rejected, their bank ids still in rejected_bank_ids
SiblingsUntouched(after, A) ==
  /\ \A B \in Oids \ {A} : after.heap[B] = heap[B]
  /\ \A B \in Range(match_suggestions) \ {A} :
       heap[B].status = REJECTED /\ (SharesEntry(heap[A], heap[B]) \/ heap[B].bank = heap[A].bank)
         => /\ after.heap[B].status = REJECTED
            /\ heap[B].bank \in rejected_bank_ids => heap[B].bank \in after.rejected_bank_ids

\* C29: undoing a confirmation does not touch cascaded siblings: when
\* confirming A has rejected B, after the undo of A B is still rejected and
\* B's bank id is still in rejected_bank_ids; undo_confirmation changes no
\* proposal other than the one undone.
C29_UndoLeavesSiblings ==
  [][\A A \in Held :
       /\ steps' = steps + 1 /\ last_call'.op = "undo_confirmation" /\ UndoConfirmation(A)
            => SiblingsUntouched(undo_confirmation(Sys, A), A)
       /\ steps' = steps + 1 /\ last_call' = Did("update_match_status", <<PENDING>>)
            /\ heap[A].status = CONFIRMED /\ UpdateMatchStatus(A, PENDING)
            => SiblingsUntouched(update_match_status(Sys, A, PENDING), A)]_vars

\* a confirmation has been undone: the proposal is pending again, a
\* proposal that shares an entry with it is still rejected
C29_Witness ==
  /\ last_call.op = "undo_confirmation"
  /\ \E A \in PendingProposals, B \in Range(match_suggestions) :
       /\ heap[B].status = REJECTED
       /\ heap[B].bank # heap[A].bank
       /\ SharesEntry(heap[A], heap[B])
       /\ heap[B].bank \in rejected_bank_ids
       /\ BeaconIdsOf(heap[A]) \cap matched_beacon_ids = {}

\* what identifies a candidate: its bank transaction, entries, kind and
\* confidence
Shape(rec) == [bank |-> rec.bank, beacon_entries |-> rec.beacon_entries,
               match_type |-> rec.match_type, confidence_score |-> rec.confidence_score]

\* the 1-to-1 and 1-to-2 candidates of bank transaction b over the pool
\* available whose confidence is at least the floor
Surviving(b, available, tolerance) ==
  {Shape(r) : r \in {c \in Range(_find_one_to_one_matches_fast(b, available, tolerance)
                                   \o _find_one_to_two_matches_fast(b, available, tolerance,
                                                                    DEFAULT_TRANS_NO_LIMIT)) :
                       c.confidence_score >= MIN_CONFIDENCE_THRESHOLD}}

\* the proposals of bank transaction b in the working set after the step
ProposalsFor(b) == {o \in Range(match_suggestions') : heap'[o].bank = b}

\* the working set after the step holds every surviving candidate of b and
\* no no-match proposal for it, or, when there is none, one no-match
\* proposal with confidence 0 and no entry
CandidatesOrNoMatch(b, surviving) ==
  IF surviving # {}
  THEN /\ surviving \subseteq {Shape(heap'[o]) : o \in ProposalsFor(b)}
       /\ \A o \in ProposalsFor(b) : heap'[o].match_type # "no-match"
  ELSE /\ Cardinality(ProposalsFor(b)) = 1
       /\ \A o \in ProposalsFor(b) :
            /\ heap'[o].match_type = "no-match"
            /\ heap'[o].confidence_score = 0
            /\ heap'[o].beacon_entries = <<>>

\* C30: for each bank transaction that generate_suggestions processes, the
\* working set holds either all its candidates of confidence at least 0.1
\* (1-to-1 and 1-to-2, not only the best) or, when none survives, exactly
\* one no-match proposal with confidence 0 and an empty entry list; a
\* no-match proposal never coexists with a candidate for the same bank
\* transaction, and every bank transaction without a settled proposal has
\* at least one proposal.
C30_AllCandidatesOrNoMatch ==
  [][steps' = steps + 1 /\ last_call'.op = "generate_suggestions"
       => /\ \A b \in BankIds :
               SettledFor(heap, Range(confirmed_matches), b) = {}
                 => CandidatesOrNoMatch(b, Surviving(b, AvailableBeacon(Sys), date_tolerance_days))
          /\ \A b \in BankIds :
               SettledFor(heap', Held', b) = {} => ProposalsFor(b) # {}]_vars

\* the proposals the generation of the step takes over from the confirmed
\* collection
CarriedOver == {o \in Range(confirmed_matches) : heap[o].status \in SettledStatuses}

\* the 1-to-2 proposals the step has generated for bank transaction b
PairsFor(b) == {o \in ProposalsFor(b) \ CarriedOver : heap'[o].match_type = "1-to-2"}

\* C31: the 1-to-2 enumeration yields each unordered pair of distinct
\* unclaimed ledger entries at most once per bank transaction: no proposal
\* pairs an entry with itself, and no two 1-to-2 proposals of the same bank
\* transaction have the same set of two entries, whether the two amounts
\* are equal (one bucket) or differ.
C31_PairsOnce ==
  [][steps' = steps + 1 /\ last_call'.op = "generate_suggestions"
       => \A b \in BankIds :
            /\ \A o \in PairsFor(b) :
                 /\ Len(heap'[o].beacon_entries) = 2
                 /\ heap'[o].beacon_entries[1] # heap'[o].beacon_entries[2]
                 /\ BeaconIdsOf(heap'[o]) \cap matched_beacon_ids = {}
            /\ \A o1 \in PairsFor(b), o2 \in PairsFor(b) :
                 o1 # o2 => BeaconIdsOf(heap'[o1]) # BeaconIdsOf(heap'[o2])]_vars

\* a generation has paired two entries of the same amount for one bank
\* transaction and has found a second pair for another
C31_Witness ==
  /\ last_call.op = "generate_suggestions"
  /\ \E o \in Range(match_suggestions) :
       /\ heap[o].match_type = "1-to-2"
       /\ heap[o].confidence_score < MEMBER_MATCH_CONFIDENCE
       /\ beacon_entries[heap[o].beacon_entries[1]].amount
            = beacon_entries[heap[o].beacon_entries[2]].amount

\* C32: every 1-to-2 proposal that generate_suggestions produces has two
\* ledger entries whose reference numbers differ numerically by at most
\* the trans_no_limit of the call.
C32_PairsWithinTransNoLimit ==
  [][steps' = steps + 1 /\ last_call'.op = "generate_suggestions"
       => \A b \in BankIds : \A o \in PairsFor(b) :
            Abs(beacon_entries[heap'[o].beacon_entries[1]].trans_no.num
                  - beacon_entries[heap'[o].beacon_entries[2]].trans_no.num)
              <= DEFAULT_TRANS_NO_LIMIT]_vars

\* the candidates the last find_matches call returned, and the bank
\* transaction it was made for
Found == Range(last_call.match)
FoundFor == last_call.args[1]

IsCommon(e) == beacon_entries[e].amount \in COMMON_AMOUNTS
InDate(b, e) == DateScoreOf(b, e, date_tolerance_days) # 0

\* the pairs of distinct unclaimed entries that add up to the amount of b
\* and pass the date and the reference-number checks
CheckedPairs(b) ==
  {p \in EntryIds \X EntryIds :
     /\ p[1] < p[2]
     /\ {p[1], p[2]} \cap matched_beacon_ids = {}
     /\ beacon_entries[p[1]].amount + beacon_entries[p[2]].amount = bank_transactions[b].amount
     /\ InDate(b, p[1]) /\ InDate(b, p[2])
     /\ Abs(beacon_entries[p[1]].trans_no.num - beacon_entries[p[2]].trans_no.num)
          <= DEFAULT_TRANS_NO_LIMIT}

NoNameToken(b, e) == bank_transactions[b].surnames = <<>> \/ beacon_entries[e].surnames = <<>>

FoundPairs == {r \in Found : r.match_type = "1-to-2"}

\* the number of entries of the candidate whose amount is common
CommonCount(r) == Cardinality({i \in 1..2 : IsCommon(r.beacon_entries[i])})

\* the weighted sum of the three sub-scores of the candidate, in units of
\* 1e-7: weights 0.1, 0.45, 0.45 when the bank amount is common and
\* 0.3, 0.35, 0.35 otherwise
WeightedSum(r) ==
  IF bank_transactions[r.bank].amount \in COMMON_AMOUNTS
  THEN 10 * r.amount_score + 45 * r.date_score + 45 * r.name_score
  ELSE 30 * r.amount_score + 35 * r.date_score + 35 * r.name_score

\* C34: for every 1-to-2 candidate the amount sub-score is 0.3 when both
\* entry amounts are common, 0.6 when exactly one is and 1.0 when neither
\* is, the date sub-score is the average of the two entries' date scores,
\* and the confidence is 0.9 times the weighted sum of the three
\* sub-scores clipped to [0, 1], so it lies in [0, 0.9].
C34_PairConfidence ==
  last_call.op = "find_matches" =>
    \A r \in FoundPairs :
      /\ r.amount_score = IF CommonCount(r) = 2 THEN 30000
                          ELSE IF CommonCount(r) = 1 THEN 60000
                          ELSE 100000
      /\ 2 * r.date_score = DateScoreOf(r.bank, r.beacon_entries[1], date_tolerance_days)
                              + DateScoreOf(r.bank, r.beacon_entries[2], date_tolerance_days)
      /\ r.confidence_score = 9 * Min2(10000000, Max2(0, WeightedSum(r)))
      /\ r.confidence_score >= 0
      /\ r.confidence_score <= 90000000

\* pairs with both, one and neither amount common are scored, under
\* either set of weights
C34_Witness ==
  /\ last_call.op = "find_matches"
  /\ \E r \in FoundPairs :
       /\ CommonCount(r) = 1
       /\ bank_transactions[r.bank].amount \in COMMON_AMOUNTS
       /\ DateScoreOf(r.bank, r.beacon_entries[1], date_tolerance_days)
            # DateScoreOf(r.bank, r.beacon_entries[2], date_tolerance_days)

\* the confirmed collection cm holds exactly the settled proposals among
\* those of the working set ms and of cm, each once
SettledExactly(h, ms, cm) ==
  /\ \A o \in Range(ms) \cup Range(cm) :
       o \in Range(cm) <=> h[o].status \in SettledStatuses
  /\ \A i \in 1..Len(cm), j \in 1..Len(cm) : cm[i] = cm[j] => i = j

SettlingCalls == {"generate_suggestions", "update_match_status", "run_auto_confirm",
                  "create_manual_match", "create_manually_resolved"}

\* C35: through generate_suggestions, update_match_status, run_auto_confirm,
\* create_manual_match and create_manually_resolved a proposal is in
\* confirmed_matches exactly when its status is confirmed, manual_match or
\* manually_resolved, and no proposal is in it twice.
C35_ConfirmedExactlySettled ==
  [][steps' = steps + 1 /\ last_call'.op \in SettlingCalls
       /\ SettledExactly(heap, match_suggestions, confirmed_matches)
       => SettledExactly(heap', match_suggestions', confirmed_matches')]_vars

\* C36: every proposal of the working set whose status is rejected has its
\* bank transaction in rejected_bank_ids, also after undo_rejection of
\* another rejected proposal of the same bank transaction.
C36_RejectedCovered ==
  \A o \in Range(match_suggestions) :
    heap[o].status = REJECTED => heap[o].bank \in rejected_bank_ids

\* no two of the proposals in the working set ms and the confirmed
\* collection cm have the same identifier
UniqueIds(h, ms, cm) ==
  \A o1 \in Range(ms) \cup Range(cm), o2 \in Range(ms) \cup Range(cm) :
    h[o1].id = h[o2].id => o1 = o2

RegeneratingCalls == {"generate_suggestions", "confirm_match", "update_match_status",
                      "run_auto_confirm", "undo_confirmation", "undo_rejection"}

C38_ManualMatchEntriesDistinct ==
  last_call.op = "create_manual_match" /\ last_call.success
    => \A i \in 1..Len(heap[last_call.match].beacon_entries),
          j \in 1..Len(heap[last_call.match].beacon_entries) :
         heap[last_call.match].beacon_entries[i] = heap[last_call.match].beacon_entries[j]
           => i = j

\* C39: run_auto_confirm called again right after run_auto_confirm returns
\* 0 and changes no proposal's status, no claimed identifier and no
\* rejected identifier.
C39_AutoConfirmIdempotent ==
  last_call.op = "run_auto_confirm" =>
    /\ _auto_confirm_matches(Sys)[2] = 0
    /\ \A o \in Held : _auto_confirm_matches(Sys)[1].heap[o].status = heap[o].status
    /\ _auto_confirm_matches(Sys)[1].matched_beacon_ids = matched_beacon_ids
    /\ _auto_confirm_matches(Sys)[1].rejected_bank_ids = rejected_bank_ids

\* the first call confirmed a proposal and its cascade rejected another
C39_Witness ==
  /\ last_call.op = "run_auto_confirm"
  /\ last_call.count > 0
  /\ \E o \in Range(match_suggestions) : heap[o].status = REJECTED
  /\ \E o \in Range(match_suggestions) : heap[o].status = PENDING
====
